---- MODULE Spec2Model ----
(***************************************************************************)
(* The diagnostics engine of clang/lib/Basic/Diagnostic.cpp as a state     *)
(* machine: the counters and sticky flags of DiagnosticsEngine, and the    *)
(* operations ProcessDiag, EmitDiagnostic, Report and Reset.               *)
(***************************************************************************)
EXTENDS Integers, Sequences, FiniteSets, TLC

\* ------------------------------------------------------------------ bounds

\* Number of operations performed on one engine in a behaviour.
MaxCalls == 4
\* Largest value of ErrorLimit tried (0 means no limit).
MaxErrorLimit == 2
\* Largest byte offset of a pragma in the main file.
MaxOffset == 2
\* Number of command-line severity changes made before the source is read.
MaxCmds == 2
\* Number of severity operations in a behaviour, command line and pragmas
\* (push, pop, setSeverity at a location) together.
MaxOps == 4
\* Number of operations (reports, severity changes, resets) in a behaviour
\* with resets.
MaxResetOps == 4

\* ------------------------------------------------- levels and the catalog

\* DiagnosticsEngine::Level, in increasing order.
Levels == {"Ignored", "Note", "Remark", "Warning", "Error", "Fatal"}

\* DiagLevel >= Error
AtLeastError(DiagLevel) == DiagLevel \in {"Error", "Fatal"}

\* diag::fatal_too_many_errors, the diagnostic ProcessDiag raises itself.
fatal_too_many_errors == "fatal_too_many_errors"

\* The diagnostic ids call sites report: a note, a warning, an error the
\* catalog marks unrecoverable, an error it does not (such as
\* err_unavailable), and a fatal error.
ReportedIDs == {"note_x", "warn_x", "err_x", "err_recoverable", "fatal_x"}

DiagIDs == ReportedIDs \cup {fatal_too_many_errors}

\* DiagnosticIDs::isUnrecoverable
isUnrecoverable(DiagID) ==
    DiagID \in {"err_x", "fatal_x", fatal_too_many_errors}

\* DiagnosticIDs::isDefaultMappingAsError
isDefaultMappingAsError(DiagID) ==
    DiagID \in {"err_x", "err_recoverable", "fatal_x", fatal_too_many_errors}

\* The levels getDiagnosticLevel can resolve an id to: a note is always a
\* Note; a warning can be ignored, kept, or escalated by -Werror and
\* -Wfatal-errors; an error can only be escalated; a fatal error stays Fatal.
PossibleLevels(DiagID) ==
    CASE DiagID = "note_x" -> {"Note"}
      [] DiagID = "warn_x" -> {"Ignored", "Remark", "Warning", "Error", "Fatal"}
      [] DiagID \in {"err_x", "err_recoverable"} -> {"Error", "Fatal"}
      [] OTHER -> {"Fatal"}

\* ------------------------------------------------------------------- state

VARIABLES
    ErrorOccurred,                      \* sticky flags of the engine
    UncompilableErrorOccurred,
    FatalErrorOccurred,
    UnrecoverableErrorOccurred,
    NumWarnings,                        \* counters of the engine
    NumErrors,
    TrapNumErrorsOccurred,
    TrapNumUnrecoverableErrorsOccurred,
    LastDiagLevel,                      \* level of the last non-note diagnostic
    SuppressAllDiagnostics,             \* the global suppress-all flag
    ErrorLimit,                         \* 0 = no limit
    IncludeInDiagnosticCounts,          \* Client->IncludeInDiagnosticCounts()
    call,                               \* the operation just performed
    nCalls,                             \* operations performed so far
    errRun,                             \* history: see below
    limitHit,
    sinceFatal,
    lastNonNote,
    nonNoteSeen

\* The severity state and its location map (DiagStates, DiagStatesByLoc,
\* DiagStateOnPushStack), with the history of the operations on them.
VARIABLES
    DiagStates,                         \* the arena of DiagState objects
    Files,                              \* DiagStatesByLoc.Files
    FirstDiagState,                     \* handles into DiagStates (0 = null)
    CurDiagState,
    CurDiagStateLoc,
    DiagStateOnPushStack,
    GroupSeverity,                      \* Diags: the severity noted per group
    mcall,                              \* the map operation just performed
    pos,                                \* history: see below
    nCmds,
    nPragmas,
    pushSnap,
    onlySets,
    setHist

\* The suppression mapping (DiagSuppressionMapping and the
\* WarningsSpecialCaseList it owns), and the source manager.
VARIABLES
    Sections,                           \* the list's Sections
    DiagToSection,                      \* index into Sections (0 = null)
    DiagSuppressionMapping,             \* whether the callback is installed
    SourceMgr,                          \* hasSourceManager()
    scall                               \* the suppression operation just performed

suppressVars == <<Sections, DiagToSection, DiagSuppressionMapping, SourceMgr,
                  scall>>

\* The message formatter's last call: the format string, the arguments and
\* the text produced.
VARIABLES
    fcall

formatVars == <<fcall>>

mapVars == <<DiagStates, Files, FirstDiagState, CurDiagState, CurDiagStateLoc,
             DiagStateOnPushStack, GroupSeverity>>

mapHistoryVars == <<mcall, pos, nCmds, nPragmas, pushSnap, onlySets, setHist>>

engineVars == <<ErrorOccurred, UncompilableErrorOccurred, FatalErrorOccurred,
                UnrecoverableErrorOccurred, NumWarnings, NumErrors,
                TrapNumErrorsOccurred, TrapNumUnrecoverableErrorsOccurred,
                LastDiagLevel, SuppressAllDiagnostics, ErrorLimit,
                IncludeInDiagnosticCounts>>

historyVars == <<call, nCalls, errRun, limitHit, sinceFatal, lastNonNote,
                 nonNoteSeen>>

vars == <<engineVars, historyVars, mapVars, mapHistoryVars, suppressVars,
         formatVars>>

\* The engine's fields as one record, with what one call produces: the
\* diagnostics handed to Client->HandleDiagnostic (handled), the ProcessDiag
\* invocations made (invoked, outermost first) and the value returned (ret).
Engine ==
    [ErrorOccurred |-> ErrorOccurred,
     UncompilableErrorOccurred |-> UncompilableErrorOccurred,
     FatalErrorOccurred |-> FatalErrorOccurred,
     UnrecoverableErrorOccurred |-> UnrecoverableErrorOccurred,
     NumWarnings |-> NumWarnings,
     NumErrors |-> NumErrors,
     TrapNumErrorsOccurred |-> TrapNumErrorsOccurred,
     TrapNumUnrecoverableErrorsOccurred |-> TrapNumUnrecoverableErrorsOccurred,
     LastDiagLevel |-> LastDiagLevel,
     SuppressAllDiagnostics |-> SuppressAllDiagnostics,
     ErrorLimit |-> ErrorLimit,
     IncludeInDiagnosticCounts |-> IncludeInDiagnosticCounts,
     handled |-> <<>>,
     invoked |-> <<>>,
     ret |-> FALSE]

\* ----------------------------------------------------------------- Report

\* DiagnosticsEngine::Report(Level, const Diagnostic &): hand the diagnostic
\* to the client and count it as a warning if the client is counted.
Report(e, DiagLevel, DiagID) ==
    [e EXCEPT !.handled = Append(@, [level |-> DiagLevel, id |-> DiagID]),
              !.NumWarnings = IF e.IncludeInDiagnosticCounts /\ DiagLevel = "Warning"
                              THEN @ + 1 ELSE @]

\* ------------------------------------------------------------- ProcessDiag

\* Mutant of CountTraps: the trap counters are updated only when diagnostics
\* are not suppressed.
CountTraps_UnlessSuppressed(e, DiagID, DiagLevel) ==
    IF AtLeastError(DiagLevel) /\ ~e.SuppressAllDiagnostics
    THEN [e EXCEPT !.TrapNumErrorsOccurred = @ + 1,
                   !.TrapNumUnrecoverableErrorsOccurred =
                       IF isUnrecoverable(DiagID) THEN @ + 1 ELSE @]
    ELSE e

\* Mutant of CountTraps: the diagnostic ProcessDiag raises itself is not
\* counted.
CountTraps_CallSiteOnly(e, DiagID, DiagLevel) ==
    IF AtLeastError(DiagLevel) /\ DiagID # fatal_too_many_errors
    THEN [e EXCEPT !.TrapNumErrorsOccurred = @ + 1,
                   !.TrapNumUnrecoverableErrorsOccurred =
                       IF isUnrecoverable(DiagID) THEN @ + 1 ELSE @]
    ELSE e

\* "Update counts for DiagnosticErrorTrap even if a fatal error occurred or
\* diagnostics are suppressed."
CountTraps(e, DiagID, DiagLevel) ==
    IF AtLeastError(DiagLevel)
    THEN [e EXCEPT !.TrapNumErrorsOccurred = @ + 1,
                   !.TrapNumUnrecoverableErrorsOccurred =
                       IF isUnrecoverable(DiagID) THEN @ + 1 ELSE @]
    ELSE e

\* Mutant of RecordLastLevel: a Fatal level is never latched into
\* FatalErrorOccurred.
RecordLastLevel_NoLatch(e, DiagLevel) ==
    IF DiagLevel # "Note"
    THEN [e EXCEPT !.LastDiagLevel = DiagLevel]
    ELSE e

\* Mutant of RecordLastLevel: a Note that follows a Fatal diagnostic latches
\* FatalErrorOccurred as any other diagnostic does.
RecordLastLevel_NotesLatch(e, DiagLevel) ==
    [e EXCEPT !.FatalErrorOccurred = (e.LastDiagLevel = "Fatal") \/ @,
              !.LastDiagLevel = IF DiagLevel # "Note" THEN DiagLevel ELSE @]

\* "Record that a fatal error occurred only when we see a second non-note
\* diagnostic."
RecordLastLevel(e, DiagLevel) ==
    IF DiagLevel # "Note"
    THEN [e EXCEPT !.FatalErrorOccurred = (e.LastDiagLevel = "Fatal") \/ @,
                   !.LastDiagLevel = DiagLevel]
    ELSE e

\* Mutant of SilenceAfterFatal: silenced errors are not counted.
SilenceAfterFatal_NoCount(e, DiagLevel) ==
    [e EXCEPT !.ret = FALSE]

\* "If a fatal error has already been emitted, silence all subsequent
\* diagnostics": the engine after the silenced diagnostic.
SilenceAfterFatal(e, DiagLevel) ==
    [e EXCEPT !.NumErrors = IF AtLeastError(DiagLevel) /\ e.IncludeInDiagnosticCounts
                            THEN @ + 1 ELSE @,
              !.ret = FALSE]

\* Mutant of IsDropped: the notes of an ignored diagnostic are kept.
IsDropped_IgnoredOnly(e, DiagLevel) ==
    DiagLevel = "Ignored"

\* "If the client doesn't care about this message, don't issue it.  If this
\* is a note and the last real diagnostic was ignored, ignore it too."
IsDropped(e, DiagLevel) ==
    DiagLevel = "Ignored" \/ (DiagLevel = "Note" /\ e.LastDiagLevel = "Ignored")

\* Mutant of RecordError: every error is taken to prevent compilation.
RecordError_AlwaysUncompilable(e, DiagID) ==
    [e EXCEPT !.UnrecoverableErrorOccurred = isUnrecoverable(DiagID) \/ @,
              !.UncompilableErrorOccurred = TRUE,
              !.ErrorOccurred = TRUE,
              !.NumErrors = IF e.IncludeInDiagnosticCounts THEN @ + 1 ELSE @]

\* Mutant of RecordError: ErrorOccurred is set only with a client that is
\* included in the counts, as NumErrors is.
RecordError_FlagIfCounted(e, DiagID) ==
    [e EXCEPT !.UnrecoverableErrorOccurred = isUnrecoverable(DiagID) \/ @,
              !.UncompilableErrorOccurred = isDefaultMappingAsError(DiagID) \/ @,
              !.ErrorOccurred = e.IncludeInDiagnosticCounts \/ @,
              !.NumErrors = IF e.IncludeInDiagnosticCounts THEN @ + 1 ELSE @]

\* The bookkeeping of a diagnostic of level Error or Fatal that is issued.
RecordError(e, DiagID) ==
    [e EXCEPT !.UnrecoverableErrorOccurred = isUnrecoverable(DiagID) \/ @,
              !.UncompilableErrorOccurred = isDefaultMappingAsError(DiagID) \/ @,
              !.ErrorOccurred = TRUE,
              !.NumErrors = IF e.IncludeInDiagnosticCounts THEN @ + 1 ELSE @]

\* Mutant of TooManyErrors: the limit is hit one error early.
TooManyErrors_OffByOne(e, DiagLevel) ==
    e.ErrorLimit # 0 /\ e.NumErrors >= e.ErrorLimit /\ DiagLevel = "Error"

\* Mutant of TooManyErrors: the limit applies to Fatal diagnostics too.
TooManyErrors_AnyLevel(e, DiagLevel) ==
    e.ErrorLimit # 0 /\ e.NumErrors > e.ErrorLimit

\* ErrorLimit && NumErrors > ErrorLimit && DiagLevel == Error
TooManyErrors(e, DiagLevel) ==
    e.ErrorLimit # 0 /\ e.NumErrors > e.ErrorLimit /\ DiagLevel = "Error"

\* Mutant of MarkTooManyErrors: fatal_too_many_errors is treated as any
\* other Fatal diagnostic.
MarkTooManyErrors_Never(e, DiagID) == e

\* "Make sure we set FatalErrorOccurred to ensure that the notes from the
\* diagnostic that caused fatal_too_many_errors won't be emitted."
MarkTooManyErrors(e, DiagID) ==
    IF DiagID = fatal_too_many_errors
    THEN [e EXCEPT !.FatalErrorOccurred = TRUE]
    ELSE e

RECURSIVE ProcessDiag(_, _, _)

\* Report(diag::fatal_too_many_errors): the builder it returns is emitted at
\* the end of the statement, which runs ProcessDiag on the new diagnostic
\* (not forced); its level is the one the catalog gives it.
ReportTooManyErrors(e) ==
    ProcessDiag(e, fatal_too_many_errors,
                CHOOSE l \in PossibleLevels(fatal_too_many_errors) : TRUE)

\* Mutant of ProcessUnsuppressed: the call that raises fatal_too_many_errors
\* returns what the nested call returned for it.
ProcessUnsuppressed_NestedResult(e, DiagID, DiagLevel) ==
    LET e2 == RecordLastLevel(e, DiagLevel) IN
    IF e2.FatalErrorOccurred THEN SilenceAfterFatal(e2, DiagLevel)
    ELSE IF IsDropped(e2, DiagLevel) THEN [e2 EXCEPT !.ret = FALSE]
    ELSE LET e3 == IF AtLeastError(DiagLevel) THEN RecordError(e2, DiagID) ELSE e2 IN
         IF AtLeastError(DiagLevel) /\ TooManyErrors(e3, DiagLevel)
         THEN ReportTooManyErrors(e3)
         ELSE [Report(MarkTooManyErrors(e3, DiagID), DiagLevel, DiagID)
                  EXCEPT !.ret = TRUE]

\* The part of ProcessDiag after the suppress-all test.
ProcessUnsuppressed(e, DiagID, DiagLevel) ==
    LET e2 == RecordLastLevel(e, DiagLevel) IN
    IF e2.FatalErrorOccurred THEN SilenceAfterFatal(e2, DiagLevel)
    ELSE IF IsDropped(e2, DiagLevel) THEN [e2 EXCEPT !.ret = FALSE]
    ELSE LET e3 == IF AtLeastError(DiagLevel) THEN RecordError(e2, DiagID) ELSE e2 IN
         IF AtLeastError(DiagLevel) /\ TooManyErrors(e3, DiagLevel)
         THEN [ReportTooManyErrors(e3) EXCEPT !.ret = FALSE]
         ELSE [Report(MarkTooManyErrors(e3, DiagID), DiagLevel, DiagID)
                  EXCEPT !.ret = TRUE]

\* Mutant of ProcessDiag: the suppress-all test comes after the last level
\* is recorded.
ProcessDiag_LateSuppressTest(e, DiagID, DiagLevel) ==
    LET e0 == [e EXCEPT !.invoked = Append(@, [level |-> DiagLevel, id |-> DiagID])]
        e1 == CountTraps(e0, DiagID, DiagLevel)
    IN  IF e1.SuppressAllDiagnostics
        THEN [RecordLastLevel(e1, DiagLevel) EXCEPT !.ret = FALSE]
        ELSE ProcessUnsuppressed(e1, DiagID, DiagLevel)

\* DiagnosticsEngine::ProcessDiag on engine e for a diagnostic of id DiagID
\* that getDiagnosticLevel resolves to DiagLevel.
ProcessDiag(e, DiagID, DiagLevel) ==
    LET e0 == [e EXCEPT !.invoked = Append(@, [level |-> DiagLevel, id |-> DiagID])]
        e1 == CountTraps(e0, DiagID, DiagLevel)
    IN  IF e1.SuppressAllDiagnostics
        THEN [e1 EXCEPT !.ret = FALSE]
        ELSE ProcessUnsuppressed(e1, DiagID, DiagLevel)

\* Mutant of EmitDiagnostic: a forced diagnostic is still subject to
\* suppress-all.
EmitDiagnostic_ForceSuppressed(e, DiagID, DiagLevel, Force) ==
    IF Force
    THEN IF DiagLevel # "Ignored" /\ ~e.SuppressAllDiagnostics
         THEN [Report(e, DiagLevel, DiagID) EXCEPT !.ret = TRUE]
         ELSE [e EXCEPT !.ret = FALSE]
    ELSE ProcessDiag(e, DiagID, DiagLevel)

\* DiagnosticsEngine::EmitDiagnostic
EmitDiagnostic(e, DiagID, DiagLevel, Force) ==
    IF Force
    THEN IF DiagLevel # "Ignored"
         THEN [Report(e, DiagLevel, DiagID) EXCEPT !.ret = TRUE]
         ELSE [e EXCEPT !.ret = FALSE]
    ELSE ProcessDiag(e, DiagID, DiagLevel)

\* Mutant of Reset: LastDiagLevel is left as it is.
Reset_KeepLastLevel(e) ==
    [e EXCEPT !.ErrorOccurred = FALSE,
              !.UncompilableErrorOccurred = FALSE,
              !.FatalErrorOccurred = FALSE,
              !.UnrecoverableErrorOccurred = FALSE,
              !.NumWarnings = 0,
              !.NumErrors = 0,
              !.TrapNumErrorsOccurred = 0,
              !.TrapNumUnrecoverableErrorsOccurred = 0]

\* DiagnosticsEngine::Reset, the part on the counters and flags (the same for
\* a soft and a full reset).
Reset(e) ==
    [e EXCEPT !.ErrorOccurred = FALSE,
              !.UncompilableErrorOccurred = FALSE,
              !.FatalErrorOccurred = FALSE,
              !.UnrecoverableErrorOccurred = FALSE,
              !.NumWarnings = 0,
              !.NumErrors = 0,
              !.TrapNumErrorsOccurred = 0,
              !.TrapNumUnrecoverableErrorsOccurred = 0,
              !.LastDiagLevel = "Ignored"]

\* ------------------------------------------------- severity states: catalog

\* diag::Severity
Severities == {"Ignored", "Remark", "Warning", "Error", "Fatal"}

\* The diagnostic ids whose severity is mapped: a warning, an extension and
\* an error.
MappedIDs == {"warn_x", "ext_x", "err_x"}

\* The ids that options and pragmas name one by one.
SetIDs == {"warn_x", "err_x"}

\* DiagnosticIDs::isWarningOrExtension
isWarningOrExtension(Diag) == Diag \in {"warn_x", "ext_x"}

\* DiagnosticMapping::Make(Severity, IsUser, IsPragma)
MakeMapping(Severity, IsUser, IsPragma) ==
    [Severity |-> Severity, IsUser |-> IsUser, IsPragma |-> IsPragma,
     NoWarningAsError |-> FALSE, NoErrorAsFatal |-> FALSE,
     UpgradedFromWarning |-> FALSE]

\* DiagnosticIDs::getDefaultMapping
getDefaultMapping(Diag) ==
    MakeMapping(IF Diag = "warn_x" THEN "Warning"
                ELSE IF Diag = "ext_x" THEN "Ignored" ELSE "Error",
                FALSE, FALSE)

\* An id with no entry yet in a DiagState's DiagMap.
NoMapping == MakeMapping("none", FALSE, FALSE)

\* The DiagState the constructor of DiagState leaves: an empty DiagMap.
EmptyDiagState == [Diag \in MappedIDs |-> NoMapping]

\* The diagnostic groups of the catalog and their members
\* (DiagnosticIDs::getDiagnosticsInGroup).
KnownGroups == {"grp_x", "grp_w"}

DiagnosticsInGroup(Group) ==
    CASE Group = "grp_x" -> {"warn_x", "ext_x"}
      [] Group = "grp_w" -> {"warn_x"}
      [] OTHER -> {}

\* DiagnosticIDs::setGroupSeverity: the severity is noted for a group the
\* catalog knows, and nothing is done for another name.
setGroupSeverity(m, Group, Sev) ==
    IF Group \in KnownGroups THEN [m EXCEPT !.GroupSeverity[Group] = Sev] ELSE m

\* No severity noted yet for any group.
NoGroupSeverity == [Group \in KnownGroups |-> "none"]

\* ------------------------------------------------------- source locations

\* The invalid FileID: the imaginary root file all top-level files are
\* included into.
RootFile == "root"

\* The files of the translation unit: the main file M, and a header H that M
\* includes.
FileIDs == {RootFile, "M", "H"}

\* SourceManager::getDecomposedIncludedLoc: H is included at offset 1 of M; the
\* main file is included nowhere (invalid FileID, offset 0).
getDecomposedIncludedLoc(ID) ==
    IF ID = "H" THEN [file |-> "M", offset |-> 1]
    ELSE [file |-> RootFile, offset |-> 0]

\* SourceLocation(): the invalid location, which decomposes to the invalid
\* FileID and offset 0.
InvalidLoc == [file |-> RootFile, offset |-> 0]

isValid(L) == L.file # RootFile

\* The locations of the translation unit in the order the preprocessor
\* reaches them: the start of M, the include directive, the header, the rest
\* of M.
TU ==
    <<[file |-> "M", offset |-> 0],
      [file |-> "M", offset |-> 1],
      [file |-> "H", offset |-> 0],
      [file |-> "H", offset |-> 1]>>
    \o [i \in 1..(MaxOffset - 1) |-> [file |-> "M", offset |-> i + 1]]

\* The locations a diagnostic pragma can stand at: every location but the
\* one of the include directive.
PragmaLocs == {i \in 1..Len(TU) : TU[i] # getDecomposedIncludedLoc("H")}

\* The index of a valid location in TU (0 for the invalid location).
TUIndex(L) ==
    IF isValid(L) THEN CHOOSE i \in 1..Len(TU) : TU[i] = L ELSE 0

\* ------------------------------------------------- severity states: DiagState

\* The map's fields as one record, with the value an operation returns (ret)
\* and whether one of its assertions failed (asserted).
MapState ==
    [DiagStates |-> DiagStates,
     Files |-> Files,
     FirstDiagState |-> FirstDiagState,
     CurDiagState |-> CurDiagState,
     CurDiagStateLoc |-> CurDiagStateLoc,
     DiagStateOnPushStack |-> DiagStateOnPushStack,
     GroupSeverity |-> GroupSeverity,
     ret |-> FALSE,
     asserted |-> FALSE]

\* What DiagState::getOrAddMapping returns for a DiagMap: the entry, or the
\* catalog's default if there is none yet.
MappingOf(DiagMap, Diag) ==
    IF DiagMap[Diag] = NoMapping THEN getDefaultMapping(Diag) ELSE DiagMap[Diag]

\* DiagState::getOrAddMapping on state handle State: the map after the entry
\* has been installed.
getOrAddMapping(m, State, Diag) ==
    [m EXCEPT !.DiagStates[State][Diag] = MappingOf(m.DiagStates[State], Diag)]

\* DiagState::setMapping
setMapping(m, State, Diag, Mapping) ==
    [m EXCEPT !.DiagStates[State][Diag] = Mapping]

\* --------------------------------------------------------- DiagStateMap

\* A FileID with no entry in Files.
NoFile == [present |-> FALSE, Parent |-> "none", ParentOffset |-> 0,
           HasLocalTransitions |-> FALSE, StateTransitions |-> <<>>]

NoFiles == [ID \in FileIDs |-> NoFile]

\* File::lookup that takes the state the file starts in, whatever the offset.
FileLookup_Initial(F, Offset) ==
    F.StateTransitions[1].State

\* DiagStateMap::File::lookup: the state of the last transition at or before
\* Offset (partition_point over the transitions, which ascend by offset).
FileLookup(F, Offset) ==
    LET T == F.StateTransitions
        OnePast == CHOOSE k \in 1..(Len(T) + 1) :
                     /\ \A j \in 1..(k - 1) : T[j].Offset <= Offset
                     /\ (k <= Len(T) => ~(T[k].Offset <= Offset))
    IN  IF OnePast = 1 THEN 0 ELSE T[OnePast - 1].State

RECURSIVE getFile(_, _)

\* getFile that starts every new File from the first state.
getFile_FromFirst(m, ID) ==
    IF m.Files[ID].present THEN m
    ELSE LET Decomp == getDecomposedIncludedLoc(ID)
             m1 == IF ID # RootFile THEN getFile(m, Decomp.file) ELSE m
         IN  [m1 EXCEPT !.Files[ID] =
                [present |-> TRUE,
                 Parent |-> IF ID # RootFile THEN Decomp.file ELSE "none",
                 ParentOffset |-> IF ID # RootFile THEN Decomp.offset ELSE 0,
                 HasLocalTransitions |-> FALSE,
                 StateTransitions |-> <<[State |-> m.FirstDiagState, Offset |-> 0]>>]]

\* DiagStateMap::getFile: the map with the File of ID (and of the files it is
\* included from) created if it was not there, starting from the state of its
\* parent at the inclusion offset, or from the first state for the root.
getFile(m, ID) ==
    IF m.Files[ID].present THEN m
    ELSE IF ID # RootFile
    THEN LET Decomp == getDecomposedIncludedLoc(ID)
             m1 == getFile(m, Decomp.file)
         IN  [m1 EXCEPT !.Files[ID] =
                [present |-> TRUE, Parent |-> Decomp.file,
                 ParentOffset |-> Decomp.offset,
                 HasLocalTransitions |-> FALSE,
                 StateTransitions |->
                   <<[State |-> FileLookup(m1.Files[Decomp.file], Decomp.offset),
                      Offset |-> 0]>>]]
    ELSE [m EXCEPT !.Files[ID] =
            [present |-> TRUE, Parent |-> "none", ParentOffset |-> 0,
             HasLocalTransitions |-> FALSE,
             StateTransitions |-> <<[State |-> m.FirstDiagState, Offset |-> 0]>>]]

\* Files.empty()
FilesEmpty(m) == \A ID \in FileIDs : ~m.Files[ID].present

\* DiagStateMap::lookup: the map after the call (getFile may have created
\* Files).
lookupEffect(m, Loc) ==
    IF FilesEmpty(m) THEN m ELSE getFile(m, Loc.file)

\* DiagStateMap::lookup: the handle returned.
lookup(m, Loc) ==
    IF FilesEmpty(m) THEN m.FirstDiagState
    ELSE FileLookup(getFile(m, Loc.file).Files[Loc.file], Loc.offset)

RECURSIVE appendWalk(_, _, _, _)

\* The loop of append adding a transition also at the offset of the last one.
appendWalk_AlwaysAdd(m, F, Offset, State) ==
    IF F = "none" THEN m
    ELSE appendWalk(
           [m EXCEPT !.Files[F].HasLocalTransitions = TRUE,
                     !.Files[F].StateTransitions =
                        Append(@, [State |-> State, Offset |-> Offset])],
           m.Files[F].Parent, m.Files[F].ParentOffset, State)

\* The loop of append stopping after the file of the location.
appendWalk_LocalOnly(m, F, Offset, State) ==
    LET File == m.Files[F]
        n == Len(File.StateTransitions)
        m1 == [m EXCEPT !.Files[F].HasLocalTransitions = TRUE]
    IN  IF File.StateTransitions[n].Offset = Offset
        THEN [m1 EXCEPT !.Files[F].StateTransitions[n].State = State]
        ELSE [m1 EXCEPT !.Files[F].StateTransitions =
                          Append(@, [State |-> State, Offset |-> Offset])]

\* The loop of append carrying the offset of the location up to the files
\* its file is included from.
appendWalk_SameOffset(m, F, Offset, State) ==
    IF F = "none" THEN m
    ELSE LET File == m.Files[F]
             n == Len(File.StateTransitions)
             Last == File.StateTransitions[n]
             m1 == [m EXCEPT !.Files[F].HasLocalTransitions = TRUE,
                             !.asserted = @ \/ ~(Last.Offset <= Offset)]
         IN  IF Last.Offset = Offset
             THEN IF Last.State = State THEN m1
                  ELSE appendWalk(
                         [m1 EXCEPT !.Files[F].StateTransitions[n].State = State],
                         File.Parent, Offset, State)
             ELSE appendWalk(
                    [m1 EXCEPT !.Files[F].StateTransitions =
                                 Append(@, [State |-> State, Offset |-> Offset])],
                    File.Parent, Offset, State)

\* The loop of DiagStateMap::append over file F and the files it is included
\* from.
appendWalk(m, F, Offset, State) ==
    IF F = "none" THEN m
    ELSE LET File == m.Files[F]
             n == Len(File.StateTransitions)
             Last == File.StateTransitions[n]
             m1 == [m EXCEPT !.Files[F].HasLocalTransitions = TRUE,
                             !.asserted = @ \/ ~(Last.Offset <= Offset)]
         IN  IF Last.Offset = Offset
             THEN IF Last.State = State THEN m1
                  ELSE appendWalk(
                         [m1 EXCEPT !.Files[F].StateTransitions[n].State = State],
                         File.Parent, File.ParentOffset, State)
             ELSE appendWalk(
                    [m1 EXCEPT !.Files[F].StateTransitions =
                                 Append(@, [State |-> State, Offset |-> Offset])],
                    File.Parent, File.ParentOffset, State)

\* DiagStateMap::append
append(m, Loc, State) ==
    LET m1 == [m EXCEPT !.CurDiagState = State, !.CurDiagStateLoc = Loc]
    IN  appendWalk(getFile(m1, Loc.file), Loc.file, Loc.offset, State)

\* DiagnosticsEngine::PushDiagStatePoint
PushDiagStatePoint(m, State, Loc) ==
    [append(m, Loc, State) EXCEPT !.asserted = @ \/ ~isValid(Loc)]


\* ------------------------------------------------------- push and pop

\* DiagnosticsEngine::pushMappings
pushMappings(m, Loc) ==
    [m EXCEPT !.DiagStateOnPushStack = Append(@, m.CurDiagState)]

\* popMappings that forgets to make the pushed state current again.
popMappings_NoRestore(m, Loc) ==
    IF m.DiagStateOnPushStack = <<>> THEN [m EXCEPT !.ret = FALSE]
    ELSE [m EXCEPT !.DiagStateOnPushStack = SubSeq(@, 1, Len(@) - 1),
                   !.ret = TRUE]

\* popMappings that records a state point whether or not the state changed
\* since the push.
popMappings_AlwaysPoint(m, Loc) ==
    IF m.DiagStateOnPushStack = <<>> THEN [m EXCEPT !.ret = FALSE]
    ELSE LET n == Len(m.DiagStateOnPushStack)
             m1 == PushDiagStatePoint(m, m.DiagStateOnPushStack[n], Loc)
         IN  [m1 EXCEPT !.DiagStateOnPushStack = SubSeq(@, 1, n - 1),
                        !.ret = TRUE]

\* popMappings that does not test for the empty stack first: back() of the
\* empty vector is taken to be the current state.
popMappings_NoEmptyTest(m, Loc) ==
    LET n == Len(m.DiagStateOnPushStack)
        back == IF n = 0 THEN m.CurDiagState ELSE m.DiagStateOnPushStack[n]
        m1 == IF back # m.CurDiagState
              THEN PushDiagStatePoint(m, back, Loc)
              ELSE m
    IN  [m1 EXCEPT !.DiagStateOnPushStack =
                     IF n = 0 THEN <<>> ELSE SubSeq(@, 1, n - 1),
                   !.ret = TRUE]

\* DiagnosticsEngine::popMappings
popMappings(m, Loc) ==
    IF m.DiagStateOnPushStack = <<>> THEN [m EXCEPT !.ret = FALSE]
    ELSE LET n == Len(m.DiagStateOnPushStack)
             back == m.DiagStateOnPushStack[n]
             m1 == IF back # m.CurDiagState
                   THEN PushDiagStatePoint(m, back, Loc)
                   ELSE m
         IN  [m1 EXCEPT !.DiagStateOnPushStack = SubSeq(@, 1, n - 1),
                        !.ret = TRUE]

\* ------------------------------------------------------------ setSeverity

\* DiagnosticsEngine::makeUserMapping: a user mapping, which is a pragma
\* mapping if the location is valid and then overrides -Werror and
\* -Wfatal-errors.
makeUserMapping(Map, L) ==
    [MakeMapping(Map, TRUE, isValid(L)) EXCEPT
        !.NoWarningAsError = isValid(L), !.NoErrorAsFatal = isValid(L)]

\* setSeverity without its first assertion.
CanMap_Anything(Diag, Map) ==
    TRUE

\* The first assertion of setSeverity: "Cannot map errors into warnings!"
CanMap(Diag, Map) ==
    isWarningOrExtension(Diag) \/ Map = "Fatal" \/ Map = "Error"

\* The test for an upgraded warning without the test of the location.
WasUpgradedFromWarning_AnyLocation(Info, Map, L) ==
    /\ Map = "Warning"
    /\ (Info.Severity = "Error" \/ Info.Severity = "Fatal")

\* "A command line -Wfoo has an invalid L and cannot override error/fatal
\* mapping, while a warning pragma can."
WasUpgradedFromWarning(Info, Map, L) ==
    /\ Map = "Warning" /\ ~isValid(L)
    /\ (Info.Severity = "Error" \/ Info.Severity = "Fatal")

\* The mapping setSeverity would install if it did not propagate the
\* NoWarningAsError flag of the existing mapping.
NewMapping_NoPropagation(Info, Map, L) ==
    LET Upgraded == WasUpgradedFromWarning(Info, Map, L)
        Mapping == makeUserMapping(IF Upgraded THEN Info.Severity ELSE Map, L)
    IN  [Mapping EXCEPT !.UpgradedFromWarning = Upgraded]

\* The mapping setSeverity installs, given the existing mapping Info of Diag
\* in the current state.
NewMapping(Info, Map, L) ==
    LET Upgraded == WasUpgradedFromWarning(Info, Map, L)
        Mapping == makeUserMapping(IF Upgraded THEN Info.Severity ELSE Map, L)
    IN  [Mapping EXCEPT
           !.UpgradedFromWarning = Upgraded,
           !.NoWarningAsError = Info.NoWarningAsError \/ Mapping.NoWarningAsError]

\* The test of the common case without the comparison of the locations.
InPlace_AnyLocation(m, L) ==
    m.CurDiagState # 0

\* "Common case; setting all the diagnostics of a group in one place."
InPlace(m, L) ==
    (~isValid(L) \/ L = m.CurDiagStateLoc) /\ m.CurDiagState # 0

\* DiagnosticsEngine::setSeverity
setSeverity(m, Diag, Map, L) ==
    IF ~CanMap(Diag, Map) THEN [m EXCEPT !.asserted = TRUE]
    ELSE LET m1 == getOrAddMapping(m, m.CurDiagState, Diag)
             Info == m1.DiagStates[m1.CurDiagState][Diag]
             Mapping == NewMapping(Info, Map, L)
         IN  IF InPlace(m1, L)
             THEN setMapping(m1, m1.CurDiagState, Diag, Mapping)
             ELSE LET m2 == [m1 EXCEPT !.DiagStates =
                                Append(@, m1.DiagStates[m1.CurDiagState])]
                      back == Len(m2.DiagStates)
                  IN  PushDiagStatePoint(setMapping(m2, back, Diag, Mapping),
                                         back, L)

RECURSIVE setSeverityForEach(_, _, _, _)

\* The loop of setSeverityForGroup leaving after the first member.
setSeverityForEach_FirstOnly(m, GroupDiags, Map, Loc) ==
    IF GroupDiags = {} THEN m
    ELSE setSeverity(m, CHOOSE d \in GroupDiags : TRUE, Map, Loc)

\* "for (diag::kind Diag : GroupDiags) setSeverity(Diag, Map, Loc);"
setSeverityForEach(m, GroupDiags, Map, Loc) ==
    IF GroupDiags = {} THEN m
    ELSE LET Diag == CHOOSE d \in GroupDiags : TRUE
         IN  setSeverityForEach(setSeverity(m, Diag, Map, Loc),
                                GroupDiags \ {Diag}, Map, Loc)

\* DiagnosticsEngine::setSeverityForGroup (returns true if the group is
\* unknown)
setSeverityForGroup(m, Group, Map, Loc) ==
    IF Group \notin KnownGroups THEN [m EXCEPT !.ret = TRUE]
    ELSE [setSeverityForEach(setGroupSeverity(m, Group, Map),
                             DiagnosticsInGroup(Group), Map, Loc)
            EXCEPT !.ret = FALSE]

RECURSIVE noWarningAsErrorForEach(_, _)

\* The loop of setDiagnosticGroupWarningAsError(Group, false) taking a fatal
\* error down to an error only.
noWarningAsErrorForEach_OneStep(m, GroupDiags) ==
    IF GroupDiags = {} THEN m
    ELSE LET Diag == CHOOSE d \in GroupDiags : TRUE
             m1 == getOrAddMapping(m, m.CurDiagState, Diag)
             Info == m1.DiagStates[m1.CurDiagState][Diag]
             Downgraded ==
               [Info EXCEPT !.Severity = IF @ = "Error" THEN "Warning"
                                         ELSE IF @ = "Fatal" THEN "Error" ELSE @,
                            !.NoWarningAsError = TRUE]
         IN  noWarningAsErrorForEach(
               setMapping(m1, m1.CurDiagState, Diag, Downgraded),
               GroupDiags \ {Diag})

\* The loop of setDiagnosticGroupWarningAsError(Group, false): downgrade what
\* is mapped to an error and set the "no Werror" bit.
noWarningAsErrorForEach(m, GroupDiags) ==
    IF GroupDiags = {} THEN m
    ELSE LET Diag == CHOOSE d \in GroupDiags : TRUE
             m1 == getOrAddMapping(m, m.CurDiagState, Diag)
             Info == m1.DiagStates[m1.CurDiagState][Diag]
             Downgraded ==
               [Info EXCEPT !.Severity = IF @ = "Error" \/ @ = "Fatal"
                                         THEN "Warning" ELSE @,
                            !.NoWarningAsError = TRUE]
         IN  noWarningAsErrorForEach(
               setMapping(m1, m1.CurDiagState, Diag, Downgraded),
               GroupDiags \ {Diag})

\* setDiagnosticGroupWarningAsError that, enabling, leaves a member mapped to
\* a fatal error as it is.
setDiagnosticGroupWarningAsError_KeepFatal(m, Group, Enabled) ==
    IF Enabled
    THEN IF Group \notin KnownGroups THEN [m EXCEPT !.ret = TRUE]
         ELSE [setSeverityForEach(
                 setGroupSeverity(m, Group, "Error"),
                 {Diag \in DiagnosticsInGroup(Group) :
                    MappingOf(m.DiagStates[m.CurDiagState], Diag).Severity # "Fatal"},
                 "Error", InvalidLoc)
                 EXCEPT !.ret = FALSE]
    ELSE LET m1 == setGroupSeverity(m, Group, "Warning") IN
         IF Group \notin KnownGroups THEN [m1 EXCEPT !.ret = TRUE]
         ELSE [noWarningAsErrorForEach(m1, DiagnosticsInGroup(Group))
                 EXCEPT !.ret = FALSE]

\* DiagnosticsEngine::setDiagnosticGroupWarningAsError
setDiagnosticGroupWarningAsError(m, Group, Enabled) ==
    IF Enabled THEN setSeverityForGroup(m, Group, "Error", InvalidLoc)
    ELSE LET m1 == setGroupSeverity(m, Group, "Warning") IN
         IF Group \notin KnownGroups THEN [m1 EXCEPT !.ret = TRUE]
         ELSE [noWarningAsErrorForEach(m1, DiagnosticsInGroup(Group))
                 EXCEPT !.ret = FALSE]

RECURSIVE noErrorAsFatalForEach(_, _)

\* The loop of setDiagnosticGroupErrorAsFatal(Group, false): downgrade what
\* is mapped to a fatal error and set the "no Wfatal-errors" bit.
noErrorAsFatalForEach(m, GroupDiags) ==
    IF GroupDiags = {} THEN m
    ELSE LET Diag == CHOOSE d \in GroupDiags : TRUE
             m1 == getOrAddMapping(m, m.CurDiagState, Diag)
             Info == m1.DiagStates[m1.CurDiagState][Diag]
             Downgraded ==
               [Info EXCEPT !.Severity = IF @ = "Fatal" THEN "Error" ELSE @,
                            !.NoErrorAsFatal = TRUE]
         IN  noErrorAsFatalForEach(
               setMapping(m1, m1.CurDiagState, Diag, Downgraded),
               GroupDiags \ {Diag})

\* DiagnosticsEngine::setDiagnosticGroupErrorAsFatal
setDiagnosticGroupErrorAsFatal(m, Group, Enabled) ==
    IF Enabled THEN setSeverityForGroup(m, Group, "Fatal", InvalidLoc)
    ELSE LET m1 == setGroupSeverity(m, Group, "Error") IN
         IF Group \notin KnownGroups THEN [m1 EXCEPT !.ret = TRUE]
         ELSE [noErrorAsFatalForEach(m1, DiagnosticsInGroup(Group))
                 EXCEPT !.ret = FALSE]

\* The state and the map Reset() leaves: one DiagState, for the changes made
\* through the command line, and no Files.
MapAfterReset ==
    [DiagStates |-> <<EmptyDiagState>>,
     Files |-> NoFiles,
     FirstDiagState |-> 1,
     CurDiagState |-> 1,
     CurDiagStateLoc |-> InvalidLoc,
     DiagStateOnPushStack |-> <<>>,
     GroupSeverity |-> NoGroupSeverity,
     ret |-> FALSE,
     asserted |-> FALSE]

\* Reset that clears the pragma state also when it is soft.
ResetMap_IgnoreSoft(m, soft) ==
    [MapAfterReset EXCEPT !.GroupSeverity = m.GroupSeverity]

\* Reset that, when not soft, clears the location map only, as ResetPragmas.
ResetMap_PragmasOnly(m, soft) ==
    IF soft THEN m ELSE [m EXCEPT !.Files = NoFiles]

\* DiagnosticsEngine::Reset, the part on the pragma state: nothing if soft;
\* otherwise the states, the location map and the stack are cleared and one
\* new state is made the first and current one.  What the catalog notes for
\* groups is not touched.
ResetMap(m, soft) ==
    IF soft THEN m
    ELSE [MapAfterReset EXCEPT !.GroupSeverity = m.GroupSeverity]

\* ---------------------------------------------------------------- history

\* Whether a diagnostic of level Fatal is among those handed to the client.
HandledFatal(r) == \E i \in 1..Len(r.handled) : r.handled[i].level = "Fatal"

\* Whether fatal_too_many_errors is among those handed to the client.
HandledTooMany(r) ==
    \E i \in 1..Len(r.handled) : r.handled[i].id = fatal_too_many_errors

\* The non-note diagnostics among the ProcessDiag invocations of a call.
NonNotes(r) == SelectSeq(r.invoked, LAMBDA d : d.level # "Note")

\* errRun: the number of ProcessDiag calls made since construction or the
\* last Reset, as long as all of them were of level Error and made with
\* suppress-all off, and nothing else was done in between; -1 otherwise.
ErrRunAfter(r, DiagLevel) ==
    IF errRun >= 0 /\ DiagLevel = "Error" /\ ~r.SuppressAllDiagnostics
    THEN errRun + 1 ELSE -1

\* limitHit: fatal_too_many_errors has been handed to the client since
\* construction or the last Reset.
LimitHitAfter(r) == limitHit \/ HandledTooMany(r)

\* sinceFatal: the number of non-note diagnostics that ProcessDiag has
\* evaluated with suppress-all off since it last handed a diagnostic of level
\* Fatal to the client (capped at 2); -1 if it has handed none since
\* construction or the last Reset.
SinceFatalAfter(r) ==
    IF HandledFatal(r) THEN 0
    ELSE IF sinceFatal >= 0 /\ ~r.SuppressAllDiagnostics /\ NonNotes(r) # <<>>
    THEN (IF sinceFatal < 2 THEN sinceFatal + 1 ELSE 2)
    ELSE sinceFatal

\* lastNonNote: the level of the most recent non-note diagnostic that
\* ProcessDiag evaluated with suppress-all off ("None" before the first).
LastNonNoteAfter(r) ==
    IF ~r.SuppressAllDiagnostics /\ NonNotes(r) # <<>>
    THEN NonNotes(r)[Len(NonNotes(r))].level
    ELSE lastNonNote

\* ----------------------------------------------------------------- actions

\* nonNoteSeen: ProcessDiag has evaluated a non-note diagnostic with
\* suppress-all off since construction or the last Reset.
NonNoteSeenAfter(r) ==
    nonNoteSeen \/ (~r.SuppressAllDiagnostics /\ NonNotes(r) # <<>>)

\* The engine's fields take the values of record r.
Becomes(r) ==
    /\ ErrorOccurred' = r.ErrorOccurred
    /\ UncompilableErrorOccurred' = r.UncompilableErrorOccurred
    /\ FatalErrorOccurred' = r.FatalErrorOccurred
    /\ UnrecoverableErrorOccurred' = r.UnrecoverableErrorOccurred
    /\ NumWarnings' = r.NumWarnings
    /\ NumErrors' = r.NumErrors
    /\ TrapNumErrorsOccurred' = r.TrapNumErrorsOccurred
    /\ TrapNumUnrecoverableErrorsOccurred' = r.TrapNumUnrecoverableErrorsOccurred
    /\ LastDiagLevel' = r.LastDiagLevel
    /\ SuppressAllDiagnostics' = r.SuppressAllDiagnostics
    /\ ErrorLimit' = r.ErrorLimit
    /\ IncludeInDiagnosticCounts' = r.IncludeInDiagnosticCounts

CallRecord(op, DiagID, DiagLevel, r) ==
    [op |-> op, id |-> DiagID, level |-> DiagLevel,
     ret |-> r.ret, handled |-> r.handled, invoked |-> r.invoked]

NoCall == [op |-> "none", id |-> "none", level |-> "none",
           ret |-> FALSE, handled |-> <<>>, invoked |-> <<>>]

\* -------------------------------------------- history of the map operations

\* mcall: the map operation just performed, with its arguments, the value it
\* returned and whether an assertion failed in it.
MapCallRecord(op, Diag, Map, Loc, m) ==
    [op |-> op, id |-> Diag, sev |-> Map, loc |-> Loc,
     ret |-> m.ret, asserted |-> m.asserted]

NoMapCall == [op |-> "none", id |-> "none", sev |-> "none", loc |-> InvalidLoc,
              ret |-> FALSE, asserted |-> FALSE]

\* The mapping of every id in the DiagState of handle State.
MappingsOf(m, State) == [Diag \in MappedIDs |-> MappingOf(m.DiagStates[State], Diag)]

\* pos: the index in TU of the last location the preprocessor is known to
\* have reached (the location of the last pragma or of the last lookup).
\* nCmds, nPragmas: the number of command-line changes and pragmas so far.
\* pushSnap: for each entry of DiagStateOnPushStack, the mappings that were in
\* effect when it was pushed.
\* onlySets: every pragma so far was a setSeverity.
\* setHist: the setSeverity pragmas so far, each with the mapping it installed.

\* ------------------------------------------------- the suppression mapping

\* Bounds of the suppression configurations: the sections of a file, and
\* the globs of the one section of a file with a single section.
MaxSections == 2
MaxGlobs == 2

\* File names and glob patterns are sequences of characters.
Path_x_y_cc == <<"x", "/", "y", ".", "c", "c">>
Path_z_gen_cc == <<"z", ".", "g", "e", "n", ".", "c", "c">>
Path_x_y_gen_cc == <<"x", "/", "y", ".", "g", "e", "n", ".", "c", "c">>
Path_dot_x_y_cc == <<".", "/", "x", "/", "y", ".", "c", "c">>

\* The presumed file names of the locations asked about; InvalidPath is the
\* file name of an invalid presumed location.
InvalidPath == <<>>
Paths == {Path_x_y_cc, Path_z_gen_cc, Path_x_y_gen_cc, Path_dot_x_y_cc}

Glob_gen_cc == <<"*", ".", "g", "e", "n", ".", "c", "c">>
Glob_x_cc == <<"x", "/", "*", ".", "c", "c">>
Glob_y_cc == <<"*", "/", "y", ".", "c", "c">>
GlobNames == {Glob_gen_cc, Glob_x_cc, Glob_y_cc}

\* Glob->Pattern.match(FilePath) for patterns of literal characters and '*'.
RECURSIVE GlobMatch(_, _)
GlobMatch(Pattern, FilePath) ==
    IF Pattern = <<>> THEN FilePath = <<>>
    ELSE IF Head(Pattern) = "*"
    THEN \/ GlobMatch(Tail(Pattern), FilePath)
         \/ FilePath # <<>> /\ GlobMatch(Pattern, Tail(FilePath))
    ELSE /\ FilePath # <<>>
         /\ Head(FilePath) = Head(Pattern)
         /\ GlobMatch(Tail(Pattern), Tail(FilePath))

\* llvm::sys::path::remove_leading_dotslash, called at line 618: "./" at the
\* start of the path, and the separators that follow it, are removed.
RECURSIVE SkipSeparators(_)
SkipSeparators(Path) ==
    IF Path # <<>> /\ Head(Path) = "/" THEN SkipSeparators(Tail(Path)) ELSE Path

RECURSIVE remove_leading_dotslash(_)
remove_leading_dotslash(Path) ==
    IF Len(Path) > 2 /\ Path[1] = "." /\ Path[2] = "/"
    THEN remove_leading_dotslash(SkipSeparators(Tail(Tail(Path))))
    ELSE Path

\* A Section of the parsed list: its name, its matcher (the globs of the
\* section headers, with their lines) and its Entries, a map from prefix to
\* the categories of the prefix, each category with the globs of its
\* matcher. The categories of a prefix are a sequence: the order in which the
\* StringMap is iterated.
Categories == {"emit", "block"}
Prefixes == {"src", "fun"}
SectionNames == KnownGroups \cup {"*", "unknown"}

NoEntries == [Prefix \in {} |-> <<>>]

EntriesOf(Prefix, CategoriesToMatchers) ==
    [P \in {Prefix} |-> CategoriesToMatchers]

MakeSection(Name, Line, Entries) ==
    [SectionStr |-> Name,
     SectionMatcher |-> <<[Name |-> Name, LineNo |-> Line]>>,
     Entries |-> Entries]

\* The suppression fields as one record, with what one call reports
\* (the diagnostics it passes to Report) and returns.
Suppress ==
    [Sections |-> Sections,
     DiagToSection |-> DiagToSection,
     DiagSuppressionMapping |-> DiagSuppressionMapping,
     SourceMgr |-> SourceMgr,
     reports |-> <<>>,
     ret |-> FALSE]

NoDiagToSection == [Diag \in MappedIDs |-> 0]

\* Line 545: the default section the parser introduces is dropped.
EraseDefault_Nothing(Secs) == Secs

EraseDefault(Secs) ==
    SelectSeq(Secs, LAMBDA sec : sec.SectionStr # "*")

\* Lines 549-560: the line of the first glob of the section's matcher that
\* has the section's name, 0 with no such glob.
DiagLine(sec) ==
    LET hits == {i \in DOMAIN sec.SectionMatcher :
                    sec.SectionMatcher[i].Name = sec.SectionStr}
    IN  IF hits = {} THEN 0
        ELSE sec.SectionMatcher[CHOOSE i \in hits : \A j \in hits : i <= j].LineNo

\* Lines 547-562: llvm::sort of the (line, section) pairs; a section is
\* its index in Sections, pointers into the vector compare as indices do.
PairLess(a, b) == a[1] < b[1] \/ (a[1] = b[1] /\ a[2] < b[2])

RECURSIVE SortPairs(_)
SortPairs(pairs) ==
    IF pairs = {} THEN <<>>
    ELSE LET least == CHOOSE a \in pairs : \A b \in pairs \ {a} : PairLess(a, b)
         IN  <<least>> \o SortPairs(pairs \ {least})

LineAndSectionEntry_Unsorted(Secs) ==
    [i \in DOMAIN Secs |-> <<DiagLine(Secs[i]), i>>]

LineAndSectionEntry(Secs) ==
    SortPairs({<<DiagLine(Secs[i]), i>> : i \in DOMAIN Secs})

\* Lines 564-580: the loop over the sorted sections. An unknown group is
\* reported and skipped; the members of a known group are given the section,
\* over any section they had.
RECURSIVE processEach(_, _)
processEach(s, entries) ==
    IF entries = <<>> THEN s
    ELSE LET SectionEntry == Head(entries)[2]
             DiagGroup == s.Sections[SectionEntry].SectionStr
         IN  IF DiagGroup \notin KnownGroups
             THEN processEach(
                    [s EXCEPT !.reports =
                        Append(@, <<"warn_unknown_diag_option", DiagGroup>>)],
                    Tail(entries))
             ELSE processEach(
                    [s EXCEPT !.DiagToSection =
                        [Diag \in MappedIDs |->
                            IF Diag \in DiagnosticsInGroup(DiagGroup)
                            THEN SectionEntry ELSE @[Diag]]],
                    Tail(entries))

\* WarningsSpecialCaseList::processSections on a list just parsed.
processSections(s) ==
    LET kept == EraseDefault(s.Sections)
    IN  processEach([s EXCEPT !.Sections = kept], LineAndSectionEntry(kept))

\* DiagnosticsEngine::setDiagSuppressionMapping. Input is what the parser
\* makes of the buffer: its sections, unless it fails.
ParsedInput(Secs) == [parsed |-> TRUE, Sections |-> Secs]
MalformedInput == [parsed |-> FALSE, Sections |-> <<>>]

\* setDiagSuppressionMapping that drops the mapping in place when the new
\* file is rejected.
setDiagSuppressionMapping_DropOnError(s, Input) ==
    IF ~Input.parsed
    THEN [s EXCEPT !.reports =
            <<<<"err_drv_malformed_warning_suppression_mapping", "">>>>,
                   !.DiagSuppressionMapping = FALSE]
    ELSE [processSections([s EXCEPT !.Sections = Input.Sections,
                                    !.DiagToSection = NoDiagToSection,
                                    !.reports = <<>>])
            EXCEPT !.DiagSuppressionMapping = TRUE]

setDiagSuppressionMapping(s, Input) ==
    IF ~Input.parsed
    THEN [s EXCEPT !.reports =
            <<<<"err_drv_malformed_warning_suppression_mapping", "">>>>]
    ELSE [processSections([s EXCEPT !.Sections = Input.Sections,
                                    !.DiagToSection = NoDiagToSection,
                                    !.reports = <<>>])
            EXCEPT !.DiagSuppressionMapping = TRUE]

\* The globs of all the categories, in the order the two loops of
\* globsMatches meet them.
RECURSIVE GlobsInOrder(_)
GlobsInOrder(CategoriesToMatchers) ==
    IF CategoriesToMatchers = <<>> THEN <<>>
    ELSE LET Entry == Head(CategoriesToMatchers)
         IN  [i \in DOMAIN Entry.Globs |->
                 [Category |-> Entry.Category, Name |-> Entry.Globs[i]]]
             \o GlobsInOrder(Tail(CategoriesToMatchers))

IsPositive(Category) == Category # "emit"

\* Line 632: the test that skips a glob shorter than the longest match.
ShorterThanLongest_Never(Name, LongestMatch) == FALSE

ShorterThanLongest(Name, LongestMatch) == Len(Name) < Len(LongestMatch)

\* Lines 627-639: the loops of globsMatches, from a glob on.
RECURSIVE globsLoop(_, _, _, _)
globsLoop(globs, FilePath, LongestMatch, LongestIsPositive) ==
    IF globs = <<>> THEN LongestIsPositive
    ELSE LET Glob == Head(globs)
         IN  IF ShorterThanLongest(Glob.Name, LongestMatch)
             THEN globsLoop(Tail(globs), FilePath, LongestMatch,
                            LongestIsPositive)
             ELSE IF ~GlobMatch(Glob.Name, FilePath)
             THEN globsLoop(Tail(globs), FilePath, LongestMatch,
                            LongestIsPositive)
             ELSE globsLoop(Tail(globs), FilePath, Glob.Name,
                            IsPositive(Glob.Category))

\* WarningsSpecialCaseList::globsMatches
globsMatches(CategoriesToMatchers, FilePath) ==
    globsLoop(GlobsInOrder(CategoriesToMatchers), FilePath, <<>>, FALSE)

\* WarningsSpecialCaseList::isDiagSuppressed; Filename is the file name of
\* the presumed location of DiagLoc.
isDiagSuppressed(s, DiagId, Filename) ==
    LET DiagSection == s.DiagToSection[DiagId]
    IN  IF DiagSection = 0 THEN FALSE
        ELSE LET EntityTypeToCategories == s.Sections[DiagSection].Entries
             IN  IF "src" \notin DOMAIN EntityTypeToCategories THEN FALSE
                 ELSE IF Filename # InvalidPath
                 THEN globsMatches(EntityTypeToCategories["src"],
                                   remove_leading_dotslash(Filename))
                 ELSE FALSE

\* DiagnosticsEngine::isSuppressedViaMapping
isSuppressedViaMapping(s, DiagId, Filename) ==
    IF ~s.SourceMgr \/ ~s.DiagSuppressionMapping THEN FALSE
    ELSE isDiagSuppressed(s, DiagId, Filename)

\* The operation just performed on the suppression mapping and its outcome.
SuppressCallRecord(op, Input, Diag, Filename, s) ==
    [op |-> op, input |-> Input, id |-> Diag, path |-> Filename,
     reports |-> s.reports, ret |-> s.ret]

NoSuppressCall ==
    [op |-> "none", input |-> MalformedInput, id |-> "none",
     path |-> InvalidPath,
     reports |-> <<>>, ret |-> FALSE]

\* No suppression mapping and no source manager: the engine as constructed.
SuppressInit ==
    /\ Sections = <<>>
    /\ DiagToSection = NoDiagToSection
    /\ DiagSuppressionMapping = FALSE
    /\ SourceMgr = FALSE
    /\ scall = NoSuppressCall

SuppressBecomes(s) ==
    /\ Sections' = s.Sections
    /\ DiagToSection' = s.DiagToSection
    /\ DiagSuppressionMapping' = s.DiagSuppressionMapping
    /\ SourceMgr' = s.SourceMgr

\* ------------------------------------------------- the message formatter

\* Bounds of the format strings and their arguments: the clauses of a
\* %plural, the alternatives of a %select, the value of the number formatted.
MaxClauses == 2
MaxAlternatives == 3
MaxValue == 12

\* A string is a sequence of characters, a pointer into it an index; the
\* character past the end of a format string is its terminator.
Digits == <<"0", "1", "2", "3", "4", "5", "6", "7", "8", "9">>
LowerCase == {"a", "b", "c", "d", "e", "f", "g", "h", "i", "j", "k", "l", "m",
              "n", "o", "p", "q", "r", "s", "t", "u", "v", "w", "x", "y", "z"}
\* (the punctuation of ASCII, the quotation mark, the backslash and the
\* grave accent apart, which no format string drawn has)
Punctuation == {"!", "#", "$", "%", "&", "'", "(", ")", "*", "+", ",", "-", ".", "/", ":",
                ";", "<", "=", ">", "?", "@", "[", "]", "^", "_", "{", "|", "}", "~"}
Terminator == ""

CharAt(s, I) == IF I \in DOMAIN s THEN s[I] ELSE Terminator

isDigit(c) == \E i \in DOMAIN Digits : Digits[i] = c
isPunctuation(c) == c \in Punctuation
DigitValue(c) == (CHOOSE i \in DOMAIN Digits : Digits[i] = c) - 1

\* std::find(I, E, c)
RECURSIVE Find(_, _, _, _)
Find(s, I, E, c) ==
    IF I = E \/ s[I] = c THEN I ELSE Find(s, I + 1, E, c)

\* raw_ostream << Val, for a value that is not negative
RECURSIVE ToDecimal(_)
ToDecimal(Val) ==
    IF Val < 10 THEN <<Digits[Val + 1]>>
    ELSE ToDecimal(Val \div 10) \o <<Digits[(Val % 10) + 1]>>

\* What a formatting function has made so far: the text appended to OutStr,
\* and whether an assertion has failed.
NoOutput == [out |-> <<>>, asserted |-> FALSE]
Failed(acc) == [acc EXCEPT !.asserted = TRUE]
Appended(acc, text) == [acc EXCEPT !.out = @ \o text]

\* ScanFormat, lines 852-853: a '{' that ends a modifier opens a clause.
OpensClause_Never(c) == FALSE

OpensClause(c) == c = "{"

\* ScanFormat, line 848: the loop over the name of a modifier.
RECURSIVE SkipModifier(_, _, _)
SkipModifier(s, I, E) ==
    IF I # E /\ ~isDigit(s[I]) /\ s[I] # "{" THEN SkipModifier(s, I + 1, E)
    ELSE I

\* ScanFormat, from character I on and at the given depth.
RECURSIVE ScanFrom(_, _, _, _, _)
ScanFrom(s, I, E, Target, Depth) ==
    IF I = E THEN E
    ELSE IF Depth = 0 /\ s[I] = Target THEN I
    ELSE LET D == IF Depth # 0 /\ s[I] = "}" THEN Depth - 1 ELSE Depth
         IN  IF s[I] # "%" THEN ScanFrom(s, I + 1, E, Target, D)
             ELSE IF I + 1 = E THEN E
             ELSE IF isDigit(s[I + 1]) \/ isPunctuation(s[I + 1])
             THEN ScanFrom(s, I + 2, E, Target, D)
             ELSE LET K == SkipModifier(s, I + 2, E)
                  IN  IF K = E THEN E
                      ELSE IF OpensClause(s[K])
                      THEN ScanFrom(s, K + 1, E, Target, D + 1)
                      ELSE ScanFrom(s, K + 1, E, Target, D)

ScanFormat(s, I, E, Target) == ScanFrom(s, I, E, Target, 0)

\* PluralNumber: the value parsed and where Start is left.
RECURSIVE PluralNumberFrom(_, _, _, _)
PluralNumberFrom(s, Start, End, Val) ==
    IF Start # End /\ isDigit(s[Start])
    THEN PluralNumberFrom(s, Start + 1, End, Val * 10 + DigitValue(s[Start]))
    ELSE [val |-> Val, pos |-> Start]

PluralNumber(s, Start, End) == PluralNumberFrom(s, Start, End, 0)

\* TestPluralRange, line 966: the test of a range.
InRange_HalfOpen(Low, Val, High) == Low <= Val /\ Val < High

InRange(Low, Val, High) == Low <= Val /\ Val <= High

\* TestPluralRange: the result, where Start is left, and whether an
\* assertion failed.
TestPluralRange(Val, s, Start, End) ==
    IF CharAt(s, Start) # "["
    THEN LET Ref == PluralNumber(s, Start, End)
         IN  [ret |-> Ref.val = Val, pos |-> Ref.pos, asserted |-> FALSE]
    ELSE LET Low == PluralNumber(s, Start + 1, End)
             High == PluralNumber(s, Low.pos + 1, End)
         IN  IF CharAt(s, Low.pos) # ","
             THEN [ret |-> FALSE, pos |-> Low.pos, asserted |-> TRUE]
             ELSE IF CharAt(s, High.pos) # "]"
             THEN [ret |-> FALSE, pos |-> High.pos, asserted |-> TRUE]
             ELSE [ret |-> InRange(Low.val, Val, High.val),
                   pos |-> High.pos + 1, asserted |-> FALSE]

\* EvalPluralExpr, lines 975-1000: the loop over the parts of a condition. A
\* modulus of 0 is a division by zero; no condition drawn has one, and the
\* model ends the evaluation there as it does at a failed assertion.
RECURSIVE EvalPluralLoop(_, _, _, _)
EvalPluralLoop(ValNo, s, Start, End) ==
    LET C == CharAt(s, Start)
        Arg == PluralNumber(s, Start + 1, End)
        Modulo == C = "%"
        bad == IF Modulo THEN CharAt(s, Arg.pos) # "=" \/ Arg.val = 0
               ELSE ~(C = "[" \/ isDigit(C))
        t == IF Modulo
             THEN TestPluralRange(ValNo % Arg.val, s, Arg.pos + 1, End)
             ELSE TestPluralRange(ValNo, s, Start, End)
        comma == Find(s, t.pos, End, ",")
    IN  IF bad THEN [ret |-> FALSE, asserted |-> TRUE]
        ELSE IF t.asserted THEN [ret |-> FALSE, asserted |-> TRUE]
        ELSE IF t.ret THEN [ret |-> TRUE, asserted |-> FALSE]
        ELSE IF comma = End THEN [ret |-> FALSE, asserted |-> FALSE]
        ELSE EvalPluralLoop(ValNo, s, comma + 1, End)

\* EvalPluralExpr
EvalPluralExpr(ValNo, s, Start, End) ==
    IF CharAt(s, Start) = ":" THEN [ret |-> TRUE, asserted |-> FALSE]
    ELSE EvalPluralLoop(ValNo, s, Start, End)

\* HandlePluralModifier, lines 1042-1046: the end of the condition.
RECURSIVE PluralExprEnd(_, _, _)
PluralExprEnd(s, ExprEnd, ArgumentEnd) ==
    IF CharAt(s, ExprEnd) = ":" THEN [pos |-> ExprEnd, asserted |-> FALSE]
    ELSE IF ExprEnd = ArgumentEnd THEN [pos |-> ExprEnd, asserted |-> TRUE]
    ELSE PluralExprEnd(s, ExprEnd + 1, ArgumentEnd)

\* HandleSelectModifier, lines 870-878: skip over ValNo |'s.
RECURSIVE SkipAlternatives(_, _, _, _)
SkipAlternatives(s, ValNo, Argument, ArgumentEnd) ==
    IF ValNo = 0 THEN [pos |-> Argument, asserted |-> FALSE]
    ELSE LET NextVal == ScanFormat(s, Argument, ArgumentEnd, "|")
         IN  IF NextVal = ArgumentEnd
             THEN [pos |-> Argument, asserted |-> TRUE]
             ELSE SkipAlternatives(s, ValNo - 1, NextVal + 1, ArgumentEnd)

\* FormatDiagnostic, lines 1183-1187: the name of the modifier.
RECURSIVE ModifierEnd(_, _)
ModifierEnd(s, I) ==
    IF CharAt(s, I) = "-" \/ CharAt(s, I) \in LowerCase
    THEN ModifierEnd(s, I + 1) ELSE I

ModifierIs(s, Modifier, ModifierLen, Str) ==
    /\ Len(Str) = ModifierLen
    /\ SubSeq(s, Modifier, Modifier + ModifierLen - 1) = Str

RECURSIVE FormatDiagnostic(_, _, _, _, _)
RECURSIVE HandleSelectModifier(_, _, _, _, _, _)
RECURSIVE HandlePluralModifier(_, _, _, _, _, _)

\* HandleSelectModifier
HandleSelectModifier(s, ValNo, Argument, ArgumentEnd, Args, acc) ==
    LET skipped == SkipAlternatives(s, ValNo, Argument, ArgumentEnd)
        EndPtr == ScanFormat(s, skipped.pos, ArgumentEnd, "|")
    IN  IF skipped.asserted THEN Failed(acc)
        ELSE FormatDiagnostic(s, skipped.pos, EndPtr, Args, acc)

\* HandlePluralModifier
HandlePluralModifier(s, ValNo, Argument, ArgumentEnd, Args, acc) ==
    IF ~(Argument < ArgumentEnd) THEN Failed(acc)
    ELSE LET ExprEnd == PluralExprEnd(s, Argument, ArgumentEnd)
             e == EvalPluralExpr(ValNo, s, Argument, ExprEnd.pos)
         IN  IF ExprEnd.asserted \/ e.asserted THEN Failed(acc)
             ELSE IF e.ret
             THEN FormatDiagnostic(
                      s, ExprEnd.pos + 1,
                      ScanFormat(s, ExprEnd.pos + 1, ArgumentEnd, "|"),
                      Args, acc)
             ELSE HandlePluralModifier(
                      s, ValNo,
                      ScanFormat(s, Argument, ArgumentEnd - 1, "|") + 1,
                      ArgumentEnd, Args, acc)

\* Diagnostic::FormatDiagnostic(DiagStr, DiagEnd, OutStr) for arguments that
\* are all signed integers, not negative, and the modifiers select, plural
\* and s; Args[n] is the value of argument n.
FormatDiagnostic(s, DiagStr, DiagEnd, Args, acc) ==
    IF acc.asserted \/ DiagStr = DiagEnd THEN acc
    ELSE IF s[DiagStr] # "%"
    THEN LET StrEnd == Find(s, DiagStr, DiagEnd, "%")
         IN  FormatDiagnostic(s, StrEnd, DiagEnd, Args,
                              Appended(acc, SubSeq(s, DiagStr, StrEnd - 1)))
    ELSE IF isPunctuation(CharAt(s, DiagStr + 1))
    THEN FormatDiagnostic(s, DiagStr + 2, DiagEnd, Args,
                          Appended(acc, <<s[DiagStr + 1]>>))
    ELSE LET Modifier == DiagStr + 1
             HasModifier == ~isDigit(CharAt(s, Modifier))
             AfterName == IF HasModifier THEN ModifierEnd(s, Modifier)
                          ELSE Modifier
             ModifierLen == AfterName - Modifier
             HasArgument == HasModifier /\ CharAt(s, AfterName) = "{"
             Argument == AfterName + 1
             ArgumentEnd == ScanFormat(s, Argument, DiagEnd, "}")
             Number == IF HasArgument THEN ArgumentEnd + 1 ELSE AfterName
             ArgNo == DigitValue(CharAt(s, Number))
             Val == Args[ArgNo]
         IN  IF HasArgument /\ ArgumentEnd = DiagEnd THEN Failed(acc)
             ELSE IF ~isDigit(CharAt(s, Number)) THEN Failed(acc)
             ELSE FormatDiagnostic(
                    s, Number + 1, DiagEnd, Args,
                    IF ModifierIs(s, Modifier, ModifierLen, <<"s", "e", "l", "e", "c", "t">>)
                    THEN HandleSelectModifier(s, Val, Argument, ArgumentEnd,
                                              Args, acc)
                    ELSE IF ModifierIs(s, Modifier, ModifierLen, <<"s">>)
                    THEN IF Val # 1 THEN Appended(acc, <<"s">>) ELSE acc
                    ELSE IF ModifierIs(s, Modifier, ModifierLen, <<"p", "l", "u", "r", "a", "l">>)
                    THEN HandlePluralModifier(s, Val, Argument, ArgumentEnd,
                                              Args, acc)
                    ELSE IF ModifierLen = 0
                    THEN Appended(acc, ToDecimal(Val))
                    ELSE Failed(acc))

\* ------------------------------------------------ EscapeStringForDiagnostic

\* A string is a sequence of bytes (0..255), and so is what is appended to
\* the diagnostic buffer.  The longest string escaped, in bytes:
MaxBytes == 3

\* The bytes the strings escaped are made of: 'A', newline, bell, the lead
\* bytes 0xC2 and 0xC3, the continuation bytes 0x80 and 0xA9, and 0xFF.
\* They spell U+0080 (C2 80), U+00A9 (C2 A9), U+00C0 (C3 80), U+00E9 (C3 A9).
EscapedBytes == {65, 10, 7, 194, 195, 128, 169, 255}

\* clang::isPrintable: the ASCII characters from space to tilde.
isPrintable(c) == c >= 32 /\ c <= 126

\* clang::isWhitespace: ' ', \t, \n, \v, \f, \r.
isWhitespace(c) == c \in {32, 9, 10, 11, 12, 13}

\* llvm::getNumBytesForUTF8: the length the first byte announces.
getNumBytesForUTF8(first) ==
    IF first < 192 THEN 1
    ELSE IF first < 224 THEN 2
    ELSE IF first < 240 THEN 3
    ELSE IF first < 248 THEN 4
    ELSE IF first < 252 THEN 5 ELSE 6

\* A continuation byte: 10xxxxxx.
isContinuation(a) == a >= 128 /\ a <= 191

\* llvm::isLegalUTF8: the length bytes of Str from Begin are one well-formed
\* UTF-8 sequence.
isLegalUTF8(Str, Begin, length) ==
    LET first == Str[Begin] IN
    /\ length \in 1 .. 4
    /\ \A k \in 1 .. (length - 1) : isContinuation(Str[Begin + k])
    /\ length >= 2 =>
          /\ first = 224 => Str[Begin + 1] >= 160
          /\ first = 237 => Str[Begin + 1] <= 159
          /\ first = 240 => Str[Begin + 1] >= 144
          /\ first = 244 => Str[Begin + 1] <= 143
    /\ ~(first >= 128 /\ first < 194)
    /\ first <= 244

\* llvm::isLegalUTF8Sequence(Begin, End)
isLegalUTF8Sequence(Str, Begin) ==
    LET length == getNumBytesForUTF8(Str[Begin]) IN
    /\ length <= Len(Str) - Begin + 1
    /\ isLegalUTF8(Str, Begin, length)

\* llvm::ConvertUTF8toUTF32 of one legal sequence: its code point.
ConvertUTF8toUTF32(Str, Begin) ==
    LET length == getNumBytesForUTF8(Str[Begin])
        low(k) == Str[Begin + k] - 128
    IN  CASE length = 1 -> Str[Begin]
          [] length = 2 -> (Str[Begin] - 192) * 64 + low(1)
          [] length = 3 -> (Str[Begin] - 224) * 4096 + low(1) * 64 + low(2)
          [] OTHER -> (Str[Begin] - 240) * 262144 + low(1) * 4096
                         + low(2) * 64 + low(3)

\* llvm::sys::unicode::isPrintable, for the code points below U+0100: all but
\* the controls U+0000..U+001F and U+007F..U+009F.
unicode_isPrintable(CodepointValue) ==
    \/ CodepointValue >= 32 /\ CodepointValue <= 126
    \/ CodepointValue >= 160 /\ CodepointValue <= 255

\* llvm::sys::unicode::isFormatting, for the code points below U+0100: the
\* soft hyphen.
unicode_isFormatting(CodepointValue) == CodepointValue = 173

\* The character code of a hexadecimal digit, upper case.
HexDigit(d) == IF d < 10 THEN 48 + d ELSE 55 + d

RECURSIVE format_hex_no_prefix(_, _)

\* llvm::format_hex_no_prefix(N, Width, Upper = true): the digits of N, with
\* zeros in front up to Width.
format_hex_no_prefix(N, Width) ==
    IF N < 16 /\ Width <= 1 THEN <<HexDigit(N)>>
    ELSE Append(format_hex_no_prefix(N \div 16, Width - 1), HexDigit(N % 16))

\* "<U+" ... ">" around the code point, "<" ... ">" around the code unit.
CodepointMarker(CodepointValue) ==
    <<60, 85, 43>> \o format_hex_no_prefix(CodepointValue, 4) \o <<62>>

CodeUnitMarker(c) == <<60>> \o format_hex_no_prefix(c, 2) \o <<62>>

RECURSIVE EscapeFrom(_, _, _)

\* The loop of EscapeStringForDiagnostic marking a code point that is not
\* printable as it marks an invalid code unit.
EscapeFrom_AsCodeUnit(Str, Begin, OutStr) ==
    IF Begin = Len(Str) + 1 THEN OutStr
    ELSE IF isPrintable(Str[Begin]) \/ isWhitespace(Str[Begin])
    THEN EscapeFrom(Str, Begin + 1, Append(OutStr, Str[Begin]))
    ELSE IF isLegalUTF8Sequence(Str, Begin)
    THEN LET CodepointValue == ConvertUTF8toUTF32(Str, Begin)
             CodepointEnd == Begin + getNumBytesForUTF8(Str[Begin])
         IN  IF \/ unicode_isPrintable(CodepointValue)
                \/ unicode_isFormatting(CodepointValue)
             THEN EscapeFrom(Str, CodepointEnd,
                             OutStr \o SubSeq(Str, Begin, CodepointEnd - 1))
             ELSE EscapeFrom(Str, CodepointEnd,
                             OutStr \o CodeUnitMarker(Str[Begin]))
    ELSE EscapeFrom(Str, Begin + 1, OutStr \o CodeUnitMarker(Str[Begin]))

\* The loop of EscapeStringForDiagnostic from byte Begin of Str on (End is
\* Len(Str) + 1), OutStr being what the buffer holds.
EscapeFrom(Str, Begin, OutStr) ==
    IF Begin = Len(Str) + 1 THEN OutStr
    ELSE IF isPrintable(Str[Begin]) \/ isWhitespace(Str[Begin])
    THEN EscapeFrom(Str, Begin + 1, Append(OutStr, Str[Begin]))
    ELSE IF isLegalUTF8Sequence(Str, Begin)
    THEN LET CodepointValue == ConvertUTF8toUTF32(Str, Begin)
             CodepointEnd == Begin + getNumBytesForUTF8(Str[Begin])
         IN  IF \/ unicode_isPrintable(CodepointValue)
                \/ unicode_isFormatting(CodepointValue)
             THEN EscapeFrom(Str, CodepointEnd,
                             OutStr \o SubSeq(Str, Begin, CodepointEnd - 1))
             ELSE EscapeFrom(Str, CodepointEnd,
                             OutStr \o CodepointMarker(CodepointValue))
    ELSE EscapeFrom(Str, Begin + 1, OutStr \o CodeUnitMarker(Str[Begin]))

\* clang::EscapeStringForDiagnostic(Str, OutStr)
EscapeStringForDiagnostic(Str, OutStr) == EscapeFrom(Str, 1, OutStr)

\* The formatter's call and what it made.
FormatCallRecord(kind, parts, s, Args, r) ==
    [op |-> "FormatDiagnostic", kind |-> kind, parts |-> parts, str |-> s,
     args |-> Args, out |-> r.out, asserted |-> r.asserted]

NoFormatCall ==
    [op |-> "none", kind |-> "none", parts |-> <<>>, str |-> <<>>,
     args |-> <<>>, out |-> <<>>, asserted |-> FALSE]

FormatInit == fcall = NoFormatCall

\* The severity state and its map after the constructor's Reset(), with no
\* operation made on them yet.
MapInit ==
    /\ DiagStates = MapAfterReset.DiagStates
    /\ Files = MapAfterReset.Files
    /\ FirstDiagState = MapAfterReset.FirstDiagState
    /\ CurDiagState = MapAfterReset.CurDiagState
    /\ CurDiagStateLoc = MapAfterReset.CurDiagStateLoc
    /\ DiagStateOnPushStack = MapAfterReset.DiagStateOnPushStack
    /\ GroupSeverity = MapAfterReset.GroupSeverity
    /\ mcall = NoMapCall
    /\ pos = 0
    /\ nCmds = 0
    /\ nPragmas = 0
    /\ pushSnap = <<>>
    /\ onlySets = TRUE
    /\ setHist = <<>>

\* The engine after its constructor (which ends in Reset()), with the error
\* limit the driver sets and the client it installs.
Init ==
    /\ ErrorOccurred = FALSE
    /\ UncompilableErrorOccurred = FALSE
    /\ FatalErrorOccurred = FALSE
    /\ UnrecoverableErrorOccurred = FALSE
    /\ NumWarnings = 0
    /\ NumErrors = 0
    /\ TrapNumErrorsOccurred = 0
    /\ TrapNumUnrecoverableErrorsOccurred = 0
    /\ LastDiagLevel = "Ignored"
    /\ SuppressAllDiagnostics = FALSE
    /\ ErrorLimit \in 0..MaxErrorLimit
    /\ IncludeInDiagnosticCounts \in BOOLEAN
    /\ call = NoCall
    /\ nCalls = 0
    /\ errRun = 0
    /\ limitHit = FALSE
    /\ sinceFatal = -1
    /\ lastNonNote = "None"
    /\ nonNoteSeen = FALSE
    /\ MapInit
    /\ SuppressInit
    /\ FormatInit

\* A call site reports a diagnostic, not forced: EmitDiagnostic(DB, false),
\* which is ProcessDiag(DB).
CallProcessDiag ==
    /\ nCalls < MaxCalls
    /\ UNCHANGED <<mapVars, mapHistoryVars, suppressVars, formatVars>>
    /\ \E DiagID \in ReportedIDs : \E DiagLevel \in PossibleLevels(DiagID) :
         LET r == EmitDiagnostic(Engine, DiagID, DiagLevel, FALSE) IN
         /\ Becomes(r)
         /\ call' = CallRecord("ProcessDiag", DiagID, DiagLevel, r)
         /\ errRun' = ErrRunAfter(r, DiagLevel)
         /\ limitHit' = LimitHitAfter(r)
         /\ sinceFatal' = SinceFatalAfter(r)
         /\ lastNonNote' = LastNonNoteAfter(r)
         /\ nonNoteSeen' = NonNoteSeenAfter(r)
    /\ nCalls' = nCalls + 1

\* A call site reports a diagnostic, forced: EmitDiagnostic(DB, true).
CallEmitForced ==
    /\ nCalls < MaxCalls
    /\ UNCHANGED <<mapVars, mapHistoryVars, suppressVars, formatVars>>
    /\ \E DiagID \in ReportedIDs : \E DiagLevel \in PossibleLevels(DiagID) :
         LET r == EmitDiagnostic(Engine, DiagID, DiagLevel, TRUE) IN
         /\ Becomes(r)
         /\ call' = CallRecord("EmitForced", DiagID, DiagLevel, r)
    /\ errRun' = -1
    /\ nCalls' = nCalls + 1
    /\ UNCHANGED <<limitHit, sinceFatal, lastNonNote, nonNoteSeen>>

\* Reset(soft), for either value of soft.
CallReset ==
    /\ nCalls < MaxCalls
    /\ UNCHANGED <<mapVars, mapHistoryVars, suppressVars, formatVars>>
    /\ LET r == Reset(Engine) IN
         /\ Becomes(r)
         /\ call' = CallRecord("Reset", "none", "none", r)
    /\ errRun' = IF SuppressAllDiagnostics THEN -1 ELSE 0
    /\ limitHit' = FALSE
    /\ sinceFatal' = -1
    /\ nCalls' = nCalls + 1
    /\ nonNoteSeen' = FALSE
    /\ UNCHANGED lastNonNote

\* setSuppressAllDiagnostics(Val)
CallSetSuppressAll ==
    /\ nCalls < MaxCalls
    /\ UNCHANGED <<mapVars, mapHistoryVars, suppressVars, formatVars>>
    /\ \E Val \in BOOLEAN :
         LET r == [Engine EXCEPT !.SuppressAllDiagnostics = Val] IN
         /\ Becomes(r)
         /\ call' = CallRecord("setSuppressAllDiagnostics", "none", "none", r)
    /\ errRun' = -1
    /\ nCalls' = nCalls + 1
    /\ UNCHANGED <<limitHit, sinceFatal, lastNonNote, nonNoteSeen>>

Next ==
    \/ CallProcessDiag
    \/ CallEmitForced
    \/ CallReset
    \/ CallSetSuppressAll

Spec == Init /\ [][Next]_vars

\* -------------------------------------------- actions on the severity map

\* The map's fields become those of record m.
MapBecomes(m) ==
    /\ DiagStates' = m.DiagStates
    /\ Files' = m.Files
    /\ FirstDiagState' = m.FirstDiagState
    /\ CurDiagState' = m.CurDiagState
    /\ CurDiagStateLoc' = m.CurDiagStateLoc
    /\ DiagStateOnPushStack' = m.DiagStateOnPushStack
    /\ GroupSeverity' = m.GroupSeverity

\* The program is still running: no assertion has failed.
Running == ~mcall.asserted

\* A pragma can stand at TU[i]: the preprocessor has not passed it yet.  The
\* diagnostics of one group are set one after the other at one location.
Ahead(i) ==
    \/ i > pos
    \/ i = pos /\ mcall.op = "setSeverity" /\ mcall.loc = TU[i]

\* The command line is processed before the first location is reached.
OnCommandLine ==
    pos = 0 /\ nPragmas = 0 /\ nCmds < MaxCmds /\ nCmds + nPragmas < MaxOps

\* The severities the pragmas of the translation unit ask for.
PragmaSeverities == {"Warning", "Error"}

InitMap ==
    /\ Init
    /\ ErrorLimit = 0
    /\ IncludeInDiagnosticCounts = TRUE

\* -Wfoo, -Wno-foo, -Werror=foo ... : setSeverity(Diag, Map, SourceLocation())
CmdSetSeverity ==
    /\ Running /\ OnCommandLine
    /\ \E Diag \in SetIDs : \E Map \in Severities :
         LET m == setSeverity(MapState, Diag, Map, InvalidLoc) IN
         /\ MapBecomes(m)
         /\ mcall' = MapCallRecord("setSeverity", Diag, Map, InvalidLoc, m)
    /\ nCmds' = nCmds + 1
    /\ UNCHANGED <<pos, nPragmas, pushSnap, onlySets, setHist>>
    /\ UNCHANGED <<engineVars, historyVars, suppressVars, formatVars>>

\* The names a group option or pragma gives: a group of the catalog and a
\* name the catalog does not know.
GroupNames == {"grp_x", "unknown"}

\* -Werror=group, -Wno-error=group:
\* setDiagnosticGroupWarningAsError(Group, Enabled)
CmdWarningAsError ==
    /\ Running /\ OnCommandLine
    /\ \E Group \in GroupNames : \E Enabled \in BOOLEAN :
         LET m == setDiagnosticGroupWarningAsError(MapState, Group, Enabled) IN
         /\ MapBecomes(m)
         /\ mcall' = MapCallRecord("setDiagnosticGroupWarningAsError", Group,
                                   IF Enabled THEN "Error" ELSE "Warning",
                                   InvalidLoc, m)
    /\ nCmds' = nCmds + 1
    /\ UNCHANGED <<pos, nPragmas, pushSnap, onlySets, setHist>>
    /\ UNCHANGED <<engineVars, historyVars, suppressVars, formatVars>>

\* #pragma clang diagnostic warning/error/... : setSeverity(Diag, Map, L)
PragmaSetSeverity ==
    /\ Running /\ nCmds + nPragmas < MaxOps
    /\ \E i \in PragmaLocs : \E Diag \in SetIDs : \E Map \in PragmaSeverities :
         LET m == setSeverity(MapState, Diag, Map, TU[i]) IN
         /\ Ahead(i)
         /\ MapBecomes(m)
         /\ mcall' = MapCallRecord("setSeverity", Diag, Map, TU[i], m)
         /\ pos' = i
         /\ setHist' = IF m.asserted THEN setHist
                       ELSE Append(setHist,
                                   [idx |-> i, id |-> Diag,
                                    mapping |-> m.DiagStates[m.CurDiagState][Diag]])
    /\ nPragmas' = nPragmas + 1
    /\ UNCHANGED <<nCmds, pushSnap, onlySets>>
    /\ UNCHANGED <<engineVars, historyVars, suppressVars, formatVars>>

\* #pragma clang diagnostic push
PragmaPush ==
    /\ Running /\ nCmds + nPragmas < MaxOps
    /\ \E i \in PragmaLocs :
         LET m == pushMappings(MapState, TU[i]) IN
         /\ i > pos
         /\ MapBecomes(m)
         /\ mcall' = MapCallRecord("pushMappings", "none", "none", TU[i], m)
         /\ pos' = i
    /\ pushSnap' = Append(pushSnap, MappingsOf(MapState, CurDiagState))
    /\ onlySets' = FALSE
    /\ nPragmas' = nPragmas + 1
    /\ UNCHANGED <<nCmds, setHist>>
    /\ UNCHANGED <<engineVars, historyVars, suppressVars, formatVars>>

\* #pragma clang diagnostic pop
PragmaPop ==
    /\ Running /\ nCmds + nPragmas < MaxOps
    /\ \E i \in PragmaLocs :
         LET m == popMappings(MapState, TU[i]) IN
         /\ i > pos
         /\ MapBecomes(m)
         /\ mcall' = MapCallRecord("popMappings", "none", "none", TU[i], m)
         /\ pos' = i
    /\ pushSnap' = IF pushSnap = <<>> THEN pushSnap
                   ELSE SubSeq(pushSnap, 1, Len(pushSnap) - 1)
    /\ onlySets' = FALSE
    /\ nPragmas' = nPragmas + 1
    /\ UNCHANGED <<nCmds, setHist>>
    /\ UNCHANGED <<engineVars, historyVars, suppressVars, formatVars>>

\* A diagnostic is reported at a location: its state is looked up, which
\* creates the File of the location if other Files exist.  The step is taken
\* when it leaves a trace in the map (a new File).
DoLookup ==
    /\ Running
    /\ \E i \in 1..Len(TU) :
         LET m == lookupEffect(MapState, TU[i]) IN
         /\ m.Files # Files
         /\ MapBecomes(m)
         /\ mcall' = MapCallRecord("lookup", "none", "none", TU[i], m)
         /\ pos' = IF i > pos THEN i ELSE pos
    /\ UNCHANGED <<nCmds, nPragmas, pushSnap, onlySets, setHist>>
    /\ UNCHANGED <<engineVars, historyVars, suppressVars, formatVars>>

NextMap ==
    \/ CmdSetSeverity
    \/ CmdWarningAsError
    \/ PragmaSetSeverity
    \/ PragmaPush
    \/ PragmaPop
    \/ DoLookup

SpecMap == InitMap /\ [][NextMap]_vars

\* ------------------------------------------------ actions on groups

\* -Wgroup, -Wno-group, ... : setSeverityForGroup(Group, Map, SourceLocation())
CmdSetSeverityForGroup ==
    /\ Running /\ OnCommandLine
    /\ \E Group \in GroupNames : \E Map \in Severities :
         LET m == setSeverityForGroup(MapState, Group, Map, InvalidLoc) IN
         /\ MapBecomes(m)
         /\ mcall' = MapCallRecord("setSeverityForGroup", Group, Map, InvalidLoc, m)
    /\ nCmds' = nCmds + 1
    /\ UNCHANGED <<pos, nPragmas, pushSnap, onlySets, setHist>>
    /\ UNCHANGED <<engineVars, historyVars, suppressVars, formatVars>>

\* -Wfatal-errors=group, -Wno-fatal-errors=group:
\* setDiagnosticGroupErrorAsFatal(Group, Enabled)
CmdErrorAsFatal ==
    /\ Running /\ OnCommandLine
    /\ \E Group \in GroupNames : \E Enabled \in BOOLEAN :
         LET m == setDiagnosticGroupErrorAsFatal(MapState, Group, Enabled) IN
         /\ MapBecomes(m)
         /\ mcall' = MapCallRecord("setDiagnosticGroupErrorAsFatal", Group,
                                   IF Enabled THEN "Fatal" ELSE "Error",
                                   InvalidLoc, m)
    /\ nCmds' = nCmds + 1
    /\ UNCHANGED <<pos, nPragmas, pushSnap, onlySets, setHist>>
    /\ UNCHANGED <<engineVars, historyVars, suppressVars, formatVars>>

\* #pragma clang diagnostic ignored/warning/error "-Wgroup":
\* setSeverityForGroup(Group, Map, L)
PragmaSetSeverityForGroup ==
    /\ Running /\ nCmds + nPragmas < MaxOps
    /\ \E i \in PragmaLocs : \E Group \in GroupNames :
       \E Map \in PragmaSeverities \cup {"Ignored"} :
         LET m == setSeverityForGroup(MapState, Group, Map, TU[i]) IN
         /\ i > pos
         /\ MapBecomes(m)
         /\ mcall' = MapCallRecord("setSeverityForGroup", Group, Map, TU[i], m)
         /\ pos' = i
    /\ onlySets' = FALSE
    /\ nPragmas' = nPragmas + 1
    /\ UNCHANGED <<nCmds, pushSnap, setHist>>
    /\ UNCHANGED <<engineVars, historyVars, suppressVars, formatVars>>

NextGroup ==
    \/ CmdSetSeverity
    \/ CmdSetSeverityForGroup
    \/ CmdWarningAsError
    \/ CmdErrorAsFatal
    \/ PragmaSetSeverityForGroup

SpecGroup == InitMap /\ [][NextGroup]_vars

\* ------------------------------------------------ behaviours with resets

\* Room for one more operation.
BeforeResetBound == nCalls + nCmds + nPragmas < MaxResetOps

\* A warning or an error is reported.
ReportBetweenResets ==
    /\ BeforeResetBound
    /\ CallProcessDiag
    /\ call'.id \in {"warn_x", "err_x"} /\ call'.level \in {"Warning", "Error"}

\* -Werror=... for one id, on the command line.
CmdBetweenResets ==
    /\ BeforeResetBound
    /\ CmdSetSeverity
    /\ mcall'.id = "warn_x" /\ mcall'.sev = "Error"

\* #pragma clang diagnostic error/warning for one id.
SetBetweenResets ==
    /\ BeforeResetBound
    /\ PragmaSetSeverity
    /\ mcall'.id = "warn_x"

PushBetweenResets == BeforeResetBound /\ PragmaPush

PopBetweenResets == BeforeResetBound /\ PragmaPop

\* Reset(soft): the counters and flags are cleared; if not soft, so is the
\* pragma state, and a new translation unit begins.
CallResetSoftOrFull ==
    /\ Running /\ BeforeResetBound
    /\ \E soft \in BOOLEAN :
         LET r == Reset(Engine)
             m == ResetMap(MapState, soft)
         IN  /\ Becomes(r)
             /\ call' = CallRecord("Reset", "none", "none", r)
             /\ MapBecomes(m)
             /\ mcall' = MapCallRecord("Reset", "none",
                                       IF soft THEN "soft" ELSE "full",
                                       InvalidLoc, m)
             /\ IF soft
                THEN UNCHANGED <<pos, pushSnap, onlySets, setHist>>
                ELSE /\ pos' = 0
                     /\ pushSnap' = <<>>
                     /\ onlySets' = TRUE
                     /\ setHist' = <<>>
    /\ errRun' = IF SuppressAllDiagnostics THEN -1 ELSE 0
    /\ limitHit' = FALSE
    /\ sinceFatal' = -1
    /\ nCalls' = nCalls + 1
    /\ nonNoteSeen' = FALSE
    /\ UNCHANGED <<lastNonNote, nCmds, nPragmas, suppressVars, formatVars>>

NextReset ==
    \/ ReportBetweenResets
    \/ CmdBetweenResets
    \/ SetBetweenResets
    \/ PushBetweenResets
    \/ PopBetweenResets
    \/ DoLookup
    \/ CallResetSoftOrFull

SpecReset == InitMap /\ [][NextReset]_vars

\* ------------------------------------------- the suppression mapping's use

\* The level a diagnostic of the suppression mapping is reported at: the
\* default of its class, no option or pragma having changed it.
ReportLevel(DiagID) ==
    IF DiagID = "warn_unknown_diag_option" THEN "Warning" ELSE "Error"

\* Diags.Report(...) of setDiagSuppressionMapping and processSections: the
\* diagnostic goes through the engine as every diagnostic does. The
\* configurations below have one unknown section at most.
ReportThroughEngine(reports) ==
    IF reports = <<>>
    THEN UNCHANGED <<engineVars, historyVars>>
    ELSE LET DiagID == reports[1][1]
             DiagLevel == ReportLevel(DiagID)
             r == EmitDiagnostic(Engine, DiagID, DiagLevel, FALSE)
         IN  /\ Becomes(r)
             /\ call' = CallRecord("ProcessDiag", DiagID, DiagLevel, r)
             /\ errRun' = ErrRunAfter(r, DiagLevel)
             /\ limitHit' = LimitHitAfter(r)
             /\ sinceFatal' = SinceFatalAfter(r)
             /\ lastNonNote' = LastNonNoteAfter(r)
             /\ nonNoteSeen' = NonNoteSeenAfter(r)
             /\ nCalls' = nCalls + 1

\* --warning-suppression-mappings=file, given once, before anything is
\* reported or asked.
InstallMapping(Input) ==
    /\ ~DiagSuppressionMapping
    /\ nCalls = 0
    /\ scall.op # "isSuppressedViaMapping"
    /\ LET s == setDiagSuppressionMapping(Suppress, Input) IN
         /\ SuppressBecomes(s)
         /\ scall' = SuppressCallRecord("setDiagSuppressionMapping", Input,
                                        "none", InvalidPath, s)
         /\ ReportThroughEngine(s.reports)
    /\ UNCHANGED <<mapVars, mapHistoryVars, formatVars>>

\* The entries of a section of a file with several sections.
SimpleEntries ==
    {EntriesOf("fun", <<[Category |-> "block", Globs |-> <<Glob_x_cc>>]>>),
     EntriesOf("src", <<[Category |-> "emit", Globs |-> <<Glob_gen_cc>>]>>),
     EntriesOf("src", <<[Category |-> "block", Globs |-> <<Glob_x_cc>>]>>)}

\* The files with up to MaxSections sections: the names differ (the parser
\* keeps one Section per name), the header lines are those of the file in
\* some order, the vector being in any order.
SectionLists ==
    UNION {{Secs \in [1 .. n -> {MakeSection(Name, Line, Entries) :
                                    Name \in SectionNames, Line \in 1 .. n,
                                    Entries \in SimpleEntries}] :
              \A i, j \in 1 .. n :
                  i # j => /\ Secs[i].SectionStr # Secs[j].SectionStr
                           /\ DiagLine(Secs[i]) # DiagLine(Secs[j])} :
           n \in 0 .. MaxSections}

\* The "src" entries of a file with one section: one or two categories, in
\* either order, with MaxGlobs globs at most between them.
GlobLists == UNION {[1 .. k -> GlobNames] : k \in 1 .. MaxGlobs}

GlobsIn(CategoriesToMatchers, i) == Len(CategoriesToMatchers[i].Globs)

SrcEntries ==
    UNION {{Cats \in [1 .. n -> [Category : Categories, Globs : GlobLists]] :
              /\ \A i, j \in 1 .. n : i # j => Cats[i].Category # Cats[j].Category
              /\ GlobsIn(Cats, 1) + (IF n = 2 THEN GlobsIn(Cats, 2) ELSE 0)
                     <= MaxGlobs} :
           n \in 1 .. 2}

CmdSuppressionMappingSections ==
    \E Secs \in SectionLists : InstallMapping(ParsedInput(Secs))

CmdSuppressionMappingGlobs ==
    \E Name \in KnownGroups : \E Cats \in SrcEntries :
        InstallMapping(ParsedInput(
            <<MakeSection(Name, 1, EntriesOf("src", Cats))>>))

\* --warning-suppression-mappings=file with a file the parser rejects, given
\* as the only such option or right after one whose file was parsed, before
\* anything else is reported.
CmdSuppressionMappingMalformed ==
    /\ nCalls = 0
    /\ IF DiagSuppressionMapping
       THEN scall.op = "setDiagSuppressionMapping"
       ELSE scall.op # "isSuppressedViaMapping"
    /\ LET s == setDiagSuppressionMapping(Suppress, MalformedInput) IN
         /\ SuppressBecomes(s)
         /\ scall' = SuppressCallRecord("setDiagSuppressionMapping",
                                        MalformedInput, "none", InvalidPath, s)
         /\ ReportThroughEngine(s.reports)
    /\ UNCHANGED <<mapVars, mapHistoryVars, formatVars>>

\* DiagnosticsEngine::setSourceManager
CallSetSourceManager ==
    /\ ~SourceMgr
    /\ SourceMgr' = TRUE
    /\ scall' = [NoSuppressCall EXCEPT !.op = "setSourceManager"]
    /\ UNCHANGED <<Sections, DiagToSection, DiagSuppressionMapping>>
    /\ UNCHANGED <<engineVars, historyVars, mapVars, mapHistoryVars, formatVars>>

\* isSuppressedViaMapping(DiagId, DiagLoc), as getDiagnosticSeverity asks
\* for a diagnostic at a location whose presumed file name is Filename.
CallIsSuppressedViaMapping ==
    /\ \E DiagId \in MappedIDs : \E Filename \in Paths \cup {InvalidPath} :
         LET s == [Suppress EXCEPT
                     !.ret = isSuppressedViaMapping(Suppress, DiagId, Filename)]
         IN  scall' = SuppressCallRecord("isSuppressedViaMapping",
                                         MalformedInput, DiagId, Filename, s)
    /\ UNCHANGED <<Sections, DiagToSection, DiagSuppressionMapping, SourceMgr>>
    /\ UNCHANGED <<engineVars, historyVars, mapVars, mapHistoryVars, formatVars>>

NextSuppress ==
    \/ CmdSuppressionMappingSections
    \/ CmdSuppressionMappingGlobs
    \/ CmdSuppressionMappingMalformed
    \/ CallSetSourceManager
    \/ CallIsSuppressedViaMapping

SpecSuppress == InitMap /\ [][NextSuppress]_vars

\* ------------------------------------------------ the formatter's use

\* A condition of a %plural clause is a sequence of parts, any of which may
\* hold: a number or a range, of the value or of the value modulo mod
\* (mod = 0: of the value).
Number(n) == [mod |-> 0, range |-> FALSE, lo |-> n, hi |-> n]
Range(lo, hi) == [mod |-> 0, range |-> TRUE, lo |-> lo, hi |-> hi]
Modulo(d, part) == [part EXCEPT !.mod = d]

PluralConditions ==
    {<<>>,
     <<Number(1)>>,
     <<Range(2, 4)>>,
     <<Modulo(2, Number(0))>>,
     <<Modulo(10, Range(1, 2))>>,
     <<Number(0), Range(10, 12)>>,
     <<Modulo(3, Number(1)), Number(5)>>}

\* The forms of the clauses, by the place of the clause.
Forms == <<<<"o", "n", "e">>, <<"m", "a", "n", "y">>, <<"f", "e", "w">>, <<"o", "t", "h", "e", "r">>>>

\* The text of a condition, a clause and the argument of a %plural.
PartText(part) ==
    (IF part.mod # 0 THEN <<"%">> \o ToDecimal(part.mod) \o <<"=">> ELSE <<>>)
    \o (IF part.range
        THEN <<"[">> \o ToDecimal(part.lo) \o <<",">> \o ToDecimal(part.hi)
             \o <<"]">>
        ELSE ToDecimal(part.lo))

RECURSIVE Joined(_, _)
Joined(texts, separator) ==
    IF texts = <<>> THEN <<>>
    ELSE IF Len(texts) = 1 THEN texts[1]
    ELSE texts[1] \o separator \o Joined(Tail(texts), separator)

ConditionText(cond) ==
    Joined([i \in DOMAIN cond |-> PartText(cond[i])], <<",">>)

PluralArgument(conds) ==
    Joined([i \in DOMAIN conds |->
               ConditionText(conds[i]) \o <<":">> \o Forms[i]], <<"|">>)

PluralFormat(conds) ==
    <<"%", "p", "l", "u", "r", "a", "l", "{">> \o PluralArgument(conds) \o <<"}", "0">>

\* An alternative of a %select: a text, then nothing, a nested %select of
\* two texts or a nested %plural of two forms, either of argument 1.
SelectAlternatives ==
    {[head |-> <<"c", "a", "t">>, modifier |-> "none", options |-> <<>>],
     [head |-> <<"d", "o", "g">>, modifier |-> "none", options |-> <<>>],
     [head |-> <<>>, modifier |-> "none", options |-> <<>>],
     [head |-> <<"a">>, modifier |-> "select", options |-> <<<<"x">>, <<"y">>>>],
     [head |-> <<>>, modifier |-> "plural", options |-> <<<<"p">>, <<"q">>>>]}

AlternativeText(alt) ==
    alt.head
    \o (CASE alt.modifier = "select"
               -> <<"%", "s", "e", "l", "e", "c", "t", "{">> \o Joined(alt.options, <<"|">>) \o <<"}", "1">>
          [] alt.modifier = "plural"
               -> <<"%", "p", "l", "u", "r", "a", "l", "{", "1", ":">> \o alt.options[1] \o <<"|", ":">>
                  \o alt.options[2] \o <<"}", "1">>
          [] OTHER -> <<>>)

SelectFormat(alts) ==
    <<"%", "s", "e", "l", "e", "c", "t", "{">>
    \o Joined([i \in DOMAIN alts |-> AlternativeText(alts[i])], <<"|">>)
    \o <<"}", "0">>

\* The arguments of a diagnostic: two integers.
ArgumentsOf(Val0, Val1) == [n \in 0 .. 1 |-> IF n = 0 THEN Val0 ELSE Val1]

\* FormatDiagnostic of "%plural{...}0" with argument 0 a number.
CallFormatPlural ==
    /\ fcall.op = "none"
    /\ \E n \in 1 .. MaxClauses : \E conds \in [1 .. n -> PluralConditions] :
       \E Val \in 0 .. MaxValue :
         LET s == PluralFormat(conds)
             Args == ArgumentsOf(Val, 0)
             r == FormatDiagnostic(s, 1, Len(s) + 1, Args, NoOutput)
         IN  fcall' = FormatCallRecord("plural", conds, s, Args, r)
    /\ UNCHANGED <<engineVars, historyVars, mapVars, mapHistoryVars,
                   suppressVars>>

\* FormatDiagnostic of "%select{...}0" with argument 0 an index.
CallFormatSelect ==
    /\ fcall.op = "none"
    /\ \E n \in 1 .. MaxAlternatives :
       \E alts \in [1 .. n -> SelectAlternatives] :
       \E Val0 \in 0 .. MaxAlternatives : \E Val1 \in 0 .. 1 :
         LET s == SelectFormat(alts)
             Args == ArgumentsOf(Val0, Val1)
             r == FormatDiagnostic(s, 1, Len(s) + 1, Args, NoOutput)
         IN  fcall' = FormatCallRecord("select", alts, s, Args, r)
    /\ UNCHANGED <<engineVars, historyVars, mapVars, mapHistoryVars,
                   suppressVars>>

\* EscapeStringForDiagnostic of a string into an empty buffer.
CallEscapeString ==
    /\ fcall.op = "none"
    /\ \E n \in 0 .. MaxBytes : \E Str \in [1 .. n -> EscapedBytes] :
         fcall' = [NoFormatCall EXCEPT
                     !.op = "EscapeStringForDiagnostic",
                     !.str = Str,
                     !.out = EscapeStringForDiagnostic(Str, <<>>)]
    /\ UNCHANGED <<engineVars, historyVars, mapVars, mapHistoryVars,
                   suppressVars>>

NextFormat == CallFormatPlural \/ CallFormatSelect \/ CallEscapeString

SpecFormat == InitMap /\ [][NextFormat]_vars

\* ------------------------------------------------------------------ claims

\* The step is a call of ProcessDiag made by a call site (call' describes it).
IsProcessDiag == call'.op = "ProcessDiag"

\* Nothing was handed to the client and the call returned false.
NotDelivered(c) == c.handled = <<>> /\ ~c.ret

TooManyErrorsDiag == [level |-> "Fatal", id |-> fatal_too_many_errors]

\* C1: with ErrorLimit = N > 0 and a client included in the counts, in a run
\* of Error-level diagnostics given to ProcessDiag (suppress-all off, as
\* constructed) the (N+1)th hands exactly one diagnostic to the client, the
\* synthetic fatal_too_many_errors; and once that one has been handed over, no
\* diagnostic given to ProcessDiag reaches the client until Reset.
C1_ErrorLimitCascade ==
    [][IsProcessDiag =>
         /\ (ErrorLimit > 0 /\ IncludeInDiagnosticCounts /\ errRun' = ErrorLimit + 1
               => call'.handled = <<TooManyErrorsDiag>>)
         /\ (limitHit => NotDelivered(call'))]_vars

\* C1 witness: with limit 2, the fourth Error of a run has been swallowed
\* after the third raised the synthetic diagnostic.
C1_Witness ==
    /\ call.op = "ProcessDiag" /\ call.level = "Error"
    /\ ErrorLimit = 2 /\ errRun = 4 /\ limitHit
    /\ NotDelivered(call)

\* C2 as stated: after ProcessDiag handed a Fatal diagnostic to the client,
\* the first subsequent non-note, non-Ignored diagnostic still reaches the
\* client and the one after it is swallowed.
C2_OneMoreAfterFatal ==
    [][(IsProcessDiag /\ ~SuppressAllDiagnostics
          /\ call'.level \notin {"Note", "Ignored"}) =>
         /\ (sinceFatal = 0 => call'.ret /\ call'.handled # <<>>)
         /\ (sinceFatal = 1 => NotDelivered(call'))]_vars

\* C2 amended: after ProcessDiag handed a Fatal diagnostic to the client, no
\* non-note diagnostic given to ProcessDiag reaches the client until Reset:
\* the first one after the Fatal is already swallowed.
C2_NoneAfterFatal ==
    [][(IsProcessDiag /\ call'.level # "Note" /\ sinceFatal >= 0)
         => NotDelivered(call')]_vars

\* C2 witness: the first non-note diagnostic after a delivered Fatal (one
\* reported by a call site, not the synthetic one) was swallowed.
C2_Witness ==
    /\ call.op = "ProcessDiag" /\ call.level = "Warning"
    /\ sinceFatal = 1 /\ ~limitHit /\ ~SuppressAllDiagnostics
    /\ NotDelivered(call)

\* C3 as stated: with FatalErrorOccurred set and suppress-all off, ProcessDiag
\* delivers nothing and returns false, whatever the level, and a diagnostic of
\* level Error or Fatal increments NumErrors by one.
C3_SwallowedCountsError ==
    [][(IsProcessDiag /\ FatalErrorOccurred /\ ~SuppressAllDiagnostics) =>
         /\ NotDelivered(call')
         /\ (AtLeastError(call'.level) => NumErrors' = NumErrors + 1)]_vars

\* C3 amended: with FatalErrorOccurred set and suppress-all off, ProcessDiag
\* delivers nothing and returns false, whatever the level; a diagnostic of
\* level Error or Fatal increments NumErrors by one if the client is included
\* in the counts, and NumErrors is unchanged otherwise.
C3_SwallowedCountsErrorIfCounted ==
    [][(IsProcessDiag /\ FatalErrorOccurred /\ ~SuppressAllDiagnostics) =>
         /\ NotDelivered(call')
         /\ NumErrors' = IF AtLeastError(call'.level) /\ IncludeInDiagnosticCounts
                         THEN NumErrors + 1 ELSE NumErrors]_vars

\* C3 witness: an Error swallowed while FatalErrorOccurred was already set (it
\* is the second non-note diagnostic after a Fatal), counted in NumErrors.
C3_Witness ==
    /\ call.op = "ProcessDiag" /\ call.level = "Error"
    /\ sinceFatal = 2 /\ FatalErrorOccurred /\ ~SuppressAllDiagnostics
    /\ IncludeInDiagnosticCounts /\ NumErrors >= 2
    /\ NotDelivered(call)

\* The number of invocations in c of level Error or Fatal that satisfy P.
ErrorInvocations(c, P(_)) ==
    Cardinality({i \in 1..Len(c.invoked) :
                   AtLeastError(c.invoked[i].level) /\ P(c.invoked[i].id)})

\* C4: every invocation of ProcessDiag whose level is Error or Fatal (the one
\* made by the call site, and the one ProcessDiag makes for
\* fatal_too_many_errors) adds one to the error trap counter, and one to the
\* unrecoverable trap counter if the catalog marks its id unrecoverable, also
\* under suppress-all and after a fatal error; a call of a lower level
\* changes neither counter.
C4_TrapCounters ==
    [][IsProcessDiag =>
         /\ TrapNumErrorsOccurred' =
              TrapNumErrorsOccurred + ErrorInvocations(call', LAMBDA d : TRUE)
         /\ TrapNumUnrecoverableErrorsOccurred' =
              TrapNumUnrecoverableErrorsOccurred
                + ErrorInvocations(call', isUnrecoverable)
         /\ call'.invoked[1] = [level |-> call'.level, id |-> call'.id]
         /\ (~AtLeastError(call'.level) =>
               UNCHANGED <<TrapNumErrorsOccurred,
                           TrapNumUnrecoverableErrorsOccurred>>)]_vars

\* C4 witness: an unrecoverable error reported under suppress-all after a
\* fatal error occurred is in both trap counters.
C4_Witness ==
    /\ call.op = "ProcessDiag" /\ call.id = "err_x" /\ call.level = "Error"
    /\ SuppressAllDiagnostics /\ FatalErrorOccurred
    /\ TrapNumUnrecoverableErrorsOccurred >= 2
    /\ TrapNumErrorsOccurred > NumErrors

\* C5: under suppress-all ProcessDiag returns false, hands nothing to the
\* client and leaves LastDiagLevel, NumErrors, NumWarnings and the four sticky
\* flags unchanged.
C5_SuppressAllFrame ==
    [][(IsProcessDiag /\ SuppressAllDiagnostics) =>
         /\ NotDelivered(call')
         /\ UNCHANGED <<LastDiagLevel, NumErrors, NumWarnings, ErrorOccurred,
                        FatalErrorOccurred, UnrecoverableErrorOccurred,
                        UncompilableErrorOccurred>>]_vars

\* C5 witness: a Fatal reported under suppress-all right after a delivered
\* Warning changed only the trap counters.
C5_Witness ==
    /\ call.op = "ProcessDiag" /\ call.level = "Fatal"
    /\ SuppressAllDiagnostics /\ LastDiagLevel = "Warning"
    /\ TrapNumErrorsOccurred = 1 /\ NumErrors = 0 /\ ~ErrorOccurred
    /\ IncludeInDiagnosticCounts /\ NotDelivered(call)

\* C6: ProcessDiag never hands a diagnostic of level Ignored to the client,
\* nor a Note when the most recent non-note diagnostic it processed had level
\* Ignored.
C6_IgnoredAndItsNotesDropped ==
    [][IsProcessDiag =>
         /\ (call'.level = "Ignored" => NotDelivered(call'))
         /\ (call'.level = "Note" /\ lastNonNote = "Ignored"
               => NotDelivered(call'))]_vars

\* C6 witness: a Note that follows an Ignored diagnostic was dropped, with no
\* fatal error and no suppress-all to account for it.
C6_Witness ==
    /\ call.op = "ProcessDiag" /\ call.level = "Note"
    /\ lastNonNote = "Ignored" /\ ~FatalErrorOccurred /\ ~SuppressAllDiagnostics
    /\ NumWarnings >= 1
    /\ NotDelivered(call)

\* C7: fatal_too_many_errors is raised only when ErrorLimit > 0, the level is
\* exactly Error and NumErrors has just exceeded ErrorLimit, and then the
\* Error that crossed the limit is not delivered and ProcessDiag returns
\* false; with ErrorLimit = 0 it is never raised; a Fatal over the limit is
\* delivered itself, with no synthetic diagnostic.
C7_WhenTooManyErrorsIsRaised ==
    [][IsProcessDiag =>
         /\ (HandledTooMany(call') =>
               /\ ErrorLimit > 0 /\ call'.level = "Error"
               /\ IncludeInDiagnosticCounts /\ NumErrors + 1 > ErrorLimit
               /\ ~call'.ret
               /\ call'.handled = <<TooManyErrorsDiag>>)
         /\ (ErrorLimit = 0 => ~HandledTooMany(call'))
         /\ (call'.level = "Fatal" /\ call'.handled # <<>> =>
               /\ call'.ret
               /\ call'.handled = <<[level |-> "Fatal", id |-> call'.id]>>)
         /\ ((call'.level = "Fatal" /\ ~SuppressAllDiagnostics
                /\ ~FatalErrorOccurred /\ LastDiagLevel # "Fatal")
               => call'.ret)]_vars

\* C7 witness: a Fatal reported when NumErrors had reached the limit was
\* delivered itself.
C7_Witness ==
    /\ call.op = "ProcessDiag" /\ call.level = "Fatal" /\ call.ret
    /\ ErrorLimit > 0 /\ NumErrors > ErrorLimit /\ ~limitHit

\* C8: the call of ProcessDiag that raises fatal_too_many_errors sets
\* FatalErrorOccurred before it returns, and a Note reported after it is not
\* delivered.
C8_TooManyErrorsIsFatalAtOnce ==
    [][IsProcessDiag =>
         /\ (HandledTooMany(call') => FatalErrorOccurred')
         /\ (limitHit /\ call'.level = "Note" => NotDelivered(call'))]_vars

\* C8 witness: a Note reported right after the error-limit cascade was not
\* delivered.
C8_Witness ==
    /\ call.op = "ProcessDiag" /\ call.level = "Note"
    /\ limitHit /\ sinceFatal = 0 /\ lastNonNote = "Fatal"
    /\ ~SuppressAllDiagnostics /\ NotDelivered(call)

\* C9: a delivered diagnostic of level Error or Fatal sets ErrorOccurred,
\* adds one to NumErrors iff the client is included in the counts, sets
\* UnrecoverableErrorOccurred iff the catalog marks the id unrecoverable and
\* UncompilableErrorOccurred iff the id's default mapping is an error (both
\* flags are otherwise as before).
C9_DeliveredErrorBookkeeping ==
    [][(IsProcessDiag /\ call'.ret /\ AtLeastError(call'.level)) =>
         /\ call'.handled = <<[level |-> call'.level, id |-> call'.id]>>
         /\ ErrorOccurred'
         /\ NumErrors' = IF IncludeInDiagnosticCounts
                         THEN NumErrors + 1 ELSE NumErrors
         /\ UnrecoverableErrorOccurred' =
              (UnrecoverableErrorOccurred \/ isUnrecoverable(call'.id))
         /\ UncompilableErrorOccurred' =
              (UncompilableErrorOccurred \/ isDefaultMappingAsError(call'.id))]_vars

\* C9 witness: a warning escalated to Error was delivered: ErrorOccurred is
\* set, UncompilableErrorOccurred is not.
C9_Witness ==
    /\ call.op = "ProcessDiag" /\ call.id = "warn_x" /\ call.level = "Error"
    /\ call.ret /\ ErrorOccurred /\ ~UncompilableErrorOccurred
    /\ ~UnrecoverableErrorOccurred /\ NumErrors = 1

\* C10: EmitDiagnostic with Force delivers the diagnostic iff its level is
\* not Ignored, also after a fatal error and under suppress-all, and leaves
\* LastDiagLevel, NumErrors, the four sticky flags and both trap counters
\* unchanged; without Force (the calls recorded as "ProcessDiag") its effect
\* and result are those of ProcessDiag.
C10_ForcedEmit ==
    [][/\ (call'.op = "EmitForced" =>
             /\ call'.ret = (call'.level # "Ignored")
             /\ call'.handled = IF call'.level # "Ignored"
                                THEN <<[level |-> call'.level, id |-> call'.id]>>
                                ELSE <<>>
             /\ UNCHANGED <<LastDiagLevel, NumErrors, ErrorOccurred,
                            FatalErrorOccurred, UnrecoverableErrorOccurred,
                            UncompilableErrorOccurred, TrapNumErrorsOccurred,
                            TrapNumUnrecoverableErrorsOccurred>>)
       /\ (call'.op = "ProcessDiag" =>
             [Engine' EXCEPT !.ret = call'.ret, !.handled = call'.handled,
                             !.invoked = call'.invoked]
               = ProcessDiag(Engine, call'.id, call'.level))]_vars

\* C10 witness: an Error was delivered by a forced EmitDiagnostic after a
\* fatal error occurred and under suppress-all.
C10_Witness ==
    /\ call.op = "EmitForced" /\ call.level = "Error" /\ call.ret
    /\ FatalErrorOccurred /\ SuppressAllDiagnostics
    /\ TrapNumErrorsOccurred = 1

\* ------------------------------------------- claims on the severity map

\* The mappings of all ids that a diagnostic at TU[i] gets in map record m.
MappingsAt(m, i) == MappingsOf(m, lookup(m, TU[i]))

\* The step is a successful pop (mcall' describes it).
IsPop == mcall'.op = "popMappings" /\ mcall'.ret

\* C11: a pop that matches a push restores, at the pop location and at every
\* location after it, the mapping of every id that was in effect immediately
\* before the push, whatever setSeverity calls were made in between.
C11_PopRestoresPushedMappings ==
    [][IsPop =>
         \A i \in TUIndex(mcall'.loc)..Len(TU) :
            MappingsAt(MapState', i) = pushSnap[Len(pushSnap)]]_vars

\* C11 witness: a pop has just put back mappings that differ from those in
\* effect right before it, by a state point at its location.
C11_Witness ==
    /\ mcall.op = "popMappings" /\ mcall.ret
    /\ CurDiagStateLoc = mcall.loc
    /\ \E i \in 1..(TUIndex(mcall.loc) - 1) :
          MappingsAt(MapState, i) # MappingsOf(MapState, CurDiagState)

\* The fields of the location map and the states.
locationMap == <<DiagStates, Files, FirstDiagState, CurDiagState, CurDiagStateLoc>>

\* C12: a push immediately followed by a pop is a no-op on the location map:
\* neither call adds a transition to any file or changes the current state
\* or its location, and the stack gets back the depth and the content it had.
C12_PushThenPopIsNoOp ==
    [][/\ (mcall'.op = "pushMappings" =>
             /\ UNCHANGED locationMap
             /\ DiagStateOnPushStack' = Append(DiagStateOnPushStack, CurDiagState))
       /\ (mcall.op = "pushMappings" /\ mcall'.op = "popMappings" =>
             /\ UNCHANGED locationMap
             /\ mcall'.ret
             /\ Append(DiagStateOnPushStack', CurDiagState) = DiagStateOnPushStack)]_vars

\* C12 witness: a setSeverity pragma, then a push, then a pop right after it;
\* the current state is still the one the setSeverity made, at its location.
C12_Witness ==
    /\ mcall.op = "popMappings" /\ mcall.ret
    /\ nCmds = 0 /\ nPragmas = 3 /\ Len(setHist) = 1
    /\ CurDiagStateLoc = TU[setHist[1].idx]
    /\ DiagStateOnPushStack = <<>>

\* C13: a pop on an empty stack returns false and leaves the states, the
\* transitions of every file, the current state and the stack as they were;
\* a pop on a non-empty stack returns true and removes exactly one entry.
C13_PopOnEmptyStack ==
    [][mcall'.op = "popMappings" =>
         IF DiagStateOnPushStack = <<>>
         THEN ~mcall'.ret /\ UNCHANGED mapVars
         ELSE /\ mcall'.ret
              /\ Len(DiagStateOnPushStack') = Len(DiagStateOnPushStack) - 1]_vars

\* C13 witness: a pop with nothing pushed was refused, after a setSeverity
\* pragma had made a second state.
C13_Witness ==
    /\ mcall.op = "popMappings" /\ ~mcall.ret
    /\ setHist # <<>> /\ CurDiagState # FirstDiagState


\* The setSeverity pragmas so far are all in one file.
SetsInOneFile ==
    \A j, k \in 1..Len(setHist) : TU[setHist[j].idx].file = TU[setHist[k].idx].file

\* The setSeverity pragmas for Diag at or before TU[i].
SetsUpTo(Diag, i) ==
    {j \in 1..Len(setHist) : setHist[j].id = Diag /\ setHist[j].idx <= i}

\* The mapping the latest setSeverity pragma for Diag at or before TU[i]
\* installed, or the mapping of the initial state if there is none.
LatestSet(Diag, i) ==
    IF SetsUpTo(Diag, i) = {}
    THEN MappingsOf(MapState, FirstDiagState)[Diag]
    ELSE setHist[CHOOSE j \in SetsUpTo(Diag, i) :
                    \A k \in SetsUpTo(Diag, i) : k <= j].mapping

\* C14: after setSeverity pragmas at increasing locations of one file (and no
\* push or pop), the state that lookup returns for a location of that file
\* maps each id as the latest setSeverity for it at or before the location
\* did, or as the initial state does if there is none.
C14_LookupReturnsLatestSet ==
    (onlySets /\ SetsInOneFile /\ Running) =>
        \A i \in 1..Len(TU) : \A Diag \in MappedIDs :
           (setHist # <<>> /\ TU[i].file = TU[setHist[1].idx].file) =>
               MappingsAt(MapState, i)[Diag] = LatestSet(Diag, i)

\* C14 witness: two setSeverity pragmas for one id at two locations of the
\* main file, installing different mappings, with a location in between.
C14_Witness ==
    /\ onlySets /\ SetsInOneFile /\ Running /\ Len(setHist) = 2
    /\ setHist[1].id = setHist[2].id
    /\ setHist[1].mapping # setHist[2].mapping
    /\ TU[setHist[1].idx].file = "M"
    /\ setHist[1].idx + 1 < setHist[2].idx

\* The step is a setSeverity at a valid location that passed its assertions
\* (mcall' describes it).
IsPragmaSet ==
    mcall'.op = "setSeverity" /\ isValid(mcall'.loc) /\ ~mcall'.asserted

RECURSIVE IncludedThrough(_, _)

\* Location P is, in a file that ID is included from (directly or not), at or
\* after the include directive that leads to ID.
IncludedThrough(ID, P) ==
    LET Decomp == getDecomposedIncludedLoc(ID) IN
    /\ ID # RootFile
    /\ \/ P.file = Decomp.file /\ P.offset >= Decomp.offset
       \/ IncludedThrough(Decomp.file, P)

\* C15 as stated: a setSeverity at a valid location changes the mappings that
\* lookup returns at no location strictly before it.
C15_EarlierLocationsUnchanged ==
    [][IsPragmaSet =>
         \A i \in 1..(TUIndex(mcall'.loc) - 1) :
            MappingsAt(MapState', i) = MappingsAt(MapState, i)]_vars

\* C15, amended: a setSeverity at a valid location changes the mappings that
\* lookup returns at no location strictly before it, except at the include
\* directives through which its file was entered.
C15_EarlierLocationsUnchangedButIncludes ==
    [][IsPragmaSet =>
         \A i \in 1..(TUIndex(mcall'.loc) - 1) :
            ~IncludedThrough(mcall'.loc.file, TU[i]) =>
                MappingsAt(MapState', i) = MappingsAt(MapState, i)]_vars

\* C15 witness: a setSeverity in the common case (the current state changed in
\* place) after an earlier one at another location, and a third state that a
\* pop made current in between.
C15_Witness ==
    /\ mcall.op = "setSeverity" /\ isValid(mcall.loc) /\ ~mcall.asserted
    /\ Len(setHist) >= 2
    /\ setHist[Len(setHist)].idx = setHist[Len(setHist) - 1].idx
    /\ ~onlySets


\* The files that are included from another file of the translation unit.
IncludedFiles == {ID \in FileIDs : getDecomposedIncludedLoc(ID).file # RootFile}

\* C16: as long as an included file has no local transitions, lookup at each
\* of its locations returns the state that lookup returns in its parent at
\* the offset of the include directive.
C16_IncludedFileInheritsParentState ==
    \A ID \in IncludedFiles :
       ~Files[ID].HasLocalTransitions =>
          \A i \in 1..Len(TU) :
             TU[i].file = ID =>
                lookup(MapState, TU[i]) = lookup(MapState, getDecomposedIncludedLoc(ID))

\* C16 witness: the File of the header exists (a diagnostic was looked up in
\* it) without local transitions, and the state it inherits is one a pragma
\* in the main file made.
C16_Witness ==
    /\ Files["H"].present /\ ~Files["H"].HasLocalTransitions
    /\ lookup(MapState, TU[3]) # FirstDiagState
    /\ TU[3].file = "H"

\* The step is a setSeverity pragma in an included file.
IsPragmaSetInIncluded == IsPragmaSet /\ mcall'.loc.file \in IncludedFiles

\* C17 as stated: a setSeverity in an included file leaves the mappings that
\* lookup returns at every location of the parent file as they were.
C17_ParentUnchanged ==
    [][IsPragmaSetInIncluded =>
         \A i \in 1..Len(TU) :
            TU[i].file = getDecomposedIncludedLoc(mcall'.loc.file).file =>
               MappingsAt(MapState', i) = MappingsAt(MapState, i)]_vars

\* C17, amended: a setSeverity in an included file leaves the mappings that
\* lookup returns in the parent file as they were at the offsets before the
\* include directive; at the include directive and after it lookup in the
\* parent returns the state the call made current.
C17_ParentUnchangedBeforeInclude ==
    [][IsPragmaSetInIncluded =>
         LET Decomp == getDecomposedIncludedLoc(mcall'.loc.file) IN
         \A i \in 1..Len(TU) :
            TU[i].file = Decomp.file =>
               IF TU[i].offset < Decomp.offset
               THEN MappingsAt(MapState', i) = MappingsAt(MapState, i)
               ELSE lookup(MapState', TU[i]) = CurDiagState']_vars

\* C17 witness: after a setSeverity in the header, the main file has the new
\* state from the include directive on and another state before it.
C17_Witness ==
    /\ mcall.op = "setSeverity" /\ mcall.loc.file = "H" /\ ~mcall.asserted
    /\ lookup(MapState, [file |-> "M", offset |-> MaxOffset]) = CurDiagState
    /\ MappingsAt(MapState, 1) # MappingsOf(MapState, CurDiagState)


\* The step is a setSeverity that passed its assertions, at a valid location
\* or not.
IsSet == mcall'.op = "setSeverity" /\ ~mcall'.asserted

\* The mapping of the id of the call in the current state before the call,
\* and the mapping the call installed.
MappingBefore == MappingsOf(MapState, CurDiagState)[mcall'.id]

MappingAfter == DiagStates'[CurDiagState'][mcall'.id]

\* C18: setSeverity(id, Warning, loc) keeps the severity the id had and marks
\* the mapping as upgraded from a warning exactly when loc is invalid and the
\* id was mapped to Error or Fatal; every other permitted call installs the
\* severity asked for, not marked as upgraded.
C18_WarningDoesNotDowngradeOnCommandLine ==
    [][IsSet =>
         IF /\ mcall'.sev = "Warning" /\ ~isValid(mcall'.loc)
            /\ MappingBefore.Severity \in {"Error", "Fatal"}
         THEN /\ MappingAfter.Severity = MappingBefore.Severity
              /\ MappingAfter.UpgradedFromWarning
         ELSE /\ MappingAfter.Severity = mcall'.sev
              /\ ~MappingAfter.UpgradedFromWarning]_vars

\* C18 witness: a Warning asked for on the command line for an id mapped to
\* Fatal left it Fatal, marked as upgraded from a warning.
C18_Witness ==
    /\ mcall.op = "setSeverity" /\ mcall.sev = "Warning" /\ ~isValid(mcall.loc)
    /\ ~mcall.asserted
    /\ DiagStates[CurDiagState][mcall.id].Severity = "Fatal"
    /\ DiagStates[CurDiagState][mcall.id].UpgradedFromWarning

\* C19: if the id's mapping in the current state has NoWarningAsError set
\* before a setSeverity, the mapping the call installs has it set too.
C19_NoWarningAsErrorPreserved ==
    [][IsSet =>
         (MappingBefore.NoWarningAsError => MappingAfter.NoWarningAsError)]_vars

\* C19 witness: a setSeverity on the command line (whose own mapping has the
\* flag off) installed a mapping with NoWarningAsError set.
C19_Witness ==
    /\ mcall.op = "setSeverity" /\ ~isValid(mcall.loc) /\ ~mcall.asserted
    /\ mcall.sev = "Error"
    /\ DiagStates[CurDiagState][mcall.id].NoWarningAsError

\* C20: setSeverity fails its assertion exactly when the severity is Warning,
\* Remark or Ignored and the id is not a warning or an extension, and then
\* has changed nothing in the states, the transitions or the stack.
C20_CannotMapErrorsIntoWarnings ==
    [][mcall'.op = "setSeverity" =>
         /\ mcall'.asserted =
              (/\ mcall'.sev \in {"Warning", "Remark", "Ignored"}
               /\ ~isWarningOrExtension(mcall'.id))
         /\ (mcall'.asserted => UNCHANGED mapVars)]_vars

\* C20 witness: a pragma asking for Warning on an id that is an error by
\* nature failed the assertion, with transitions already recorded.
C20_Witness ==
    /\ mcall.op = "setSeverity" /\ mcall.asserted /\ isValid(mcall.loc)
    /\ mcall.sev = "Warning" /\ ~isWarningOrExtension(mcall.id)
    /\ ~FilesEmpty(MapState)


\* ------------------------------------------------------ claims on groups

\* The step is a setSeverityForGroup (mcall' describes it; mcall'.id is the
\* name of the group).
IsSetForGroup == mcall'.op = "setSeverityForGroup"

\* The mapping of Diag in the current state before and after the step.
MemberBefore(Diag) == MappingsOf(MapState, CurDiagState)[Diag]

MemberAfter(Diag) == MappingsOf(MapState', CurDiagState')[Diag]

\* C21: setSeverityForGroup with a name the catalog does not know returns
\* true and changes no mapping, no transition list and nothing the catalog
\* notes for groups; with a known group it returns false and every member has
\* the mapping, and the map the transitions, that setSeverity with the given
\* severity and location makes, the other ids keeping their mapping.
C21_SetSeverityForGroup ==
    [][IsSetForGroup =>
         IF mcall'.id \notin KnownGroups
         THEN mcall'.ret /\ UNCHANGED mapVars
         ELSE /\ ~mcall'.ret
              /\ \A Diag \in DiagnosticsInGroup(mcall'.id) :
                    LET r == setSeverity(MapState, Diag, mcall'.sev, mcall'.loc) IN
                    /\ MemberAfter(Diag) = r.DiagStates[r.CurDiagState][Diag]
                    /\ Files' = r.Files
                    /\ CurDiagStateLoc' = r.CurDiagStateLoc
              /\ \A Diag \in MappedIDs \ DiagnosticsInGroup(mcall'.id) :
                    MemberAfter(Diag) = MemberBefore(Diag)]_vars

\* C21 witness: a pragma made both members of the group errors, in a new
\* state recorded at its location.
C21_Witness ==
    /\ mcall.op = "setSeverityForGroup" /\ ~mcall.ret /\ isValid(mcall.loc)
    /\ mcall.sev = "Error" /\ CurDiagStateLoc = mcall.loc
    /\ \A Diag \in DiagnosticsInGroup(mcall.id) :
          /\ DiagStates[CurDiagState][Diag].Severity = "Error"
          /\ MappingsOf(MapState, FirstDiagState)[Diag].Severity # "Error"

\* The step disables warning-as-error, or error-as-fatal, for a known group.
IsNoWarningAsError ==
    /\ mcall'.op = "setDiagnosticGroupWarningAsError" /\ mcall'.sev = "Warning"
    /\ mcall'.id \in KnownGroups

IsNoErrorAsFatal ==
    /\ mcall'.op = "setDiagnosticGroupErrorAsFatal" /\ mcall'.sev = "Error"
    /\ mcall'.id \in KnownGroups

\* One severity step down from Fatal and from Error.
OneStepDown(Sev) ==
    IF Sev = "Fatal" THEN "Error" ELSE IF Sev = "Error" THEN "Warning" ELSE Sev

\* What disabling error-as-fatal does to every member, in both statements.
NoErrorAsFatalEffect ==
    IsNoErrorAsFatal =>
        \A Diag \in DiagnosticsInGroup(mcall'.id) :
           /\ MemberAfter(Diag).Severity =
                IF MemberBefore(Diag).Severity = "Fatal" THEN "Error"
                ELSE MemberBefore(Diag).Severity
           /\ MemberAfter(Diag).NoErrorAsFatal

\* C22 as stated: disabling warning-as-error takes every member at Error or
\* Fatal one severity step down and sets NoWarningAsError on every member;
\* disabling error-as-fatal takes every member at Fatal down to Error and
\* sets NoErrorAsFatal on every member; other severities stay.
C22_DisablingGoesOneStepDown ==
    [][/\ NoErrorAsFatalEffect
       /\ (IsNoWarningAsError =>
             \A Diag \in DiagnosticsInGroup(mcall'.id) :
                /\ MemberAfter(Diag).Severity = OneStepDown(MemberBefore(Diag).Severity)
                /\ MemberAfter(Diag).NoWarningAsError)]_vars

\* C22, amended: disabling warning-as-error makes every member at Error or
\* at Fatal a Warning and sets NoWarningAsError on every member; disabling
\* error-as-fatal is as stated.
C22_DisablingWarningAsErrorGoesToWarning ==
    [][/\ NoErrorAsFatalEffect
       /\ (IsNoWarningAsError =>
             \A Diag \in DiagnosticsInGroup(mcall'.id) :
                /\ MemberAfter(Diag).Severity =
                     IF MemberBefore(Diag).Severity \in {"Error", "Fatal"}
                     THEN "Warning" ELSE MemberBefore(Diag).Severity
                /\ MemberAfter(Diag).NoWarningAsError)]_vars

\* C22 witness: warning-as-error was disabled for a group whose members an
\* earlier group option had mapped, to errors or fatal errors; they are
\* warnings now, with NoWarningAsError set.
C22_Witness ==
    /\ mcall.op = "setDiagnosticGroupWarningAsError" /\ mcall.sev = "Warning"
    /\ mcall.id \in KnownGroups
    /\ GroupSeverity[mcall.id] = "Warning"
    /\ \A Diag \in DiagnosticsInGroup(mcall.id) :
          /\ DiagStates[CurDiagState][Diag].Severity = "Warning"
          /\ DiagStates[CurDiagState][Diag].NoWarningAsError
          /\ DiagStates[CurDiagState][Diag].IsUser


\* ------------------------------------------- claims on the transition lists

\* The transitions of a File are not empty, start at offset 0 and ascend
\* strictly by offset.
WellFormed(File) ==
    LET T == File.StateTransitions IN
    /\ T # <<>>
    /\ T[1].Offset = 0
    /\ \A j, k \in 1..Len(T) : j < k => T[j].Offset < T[k].Offset

\* The transitions a File is created with: one, at offset 0, with the state
\* of its parent at the offset of the include directive, or the first state
\* for the root.
CreatedFrom(ID) ==
    LET m == getFile(MapState, ID)
        Decomp == getDecomposedIncludedLoc(ID)
    IN  m.Files[ID].StateTransitions =
          <<[State |-> IF ID = RootFile THEN FirstDiagState
                       ELSE FileLookup(m.Files[Decomp.file], Decomp.offset),
             Offset |-> 0]>>

IsReset == nCalls' # nCalls /\ call'.op = "Reset" /\ mcall'.op = "Reset"

\* The step is a soft reset, or a full one.
IsSoftReset == IsReset /\ mcall'.sev = "soft"

IsFullReset == IsReset /\ mcall'.sev = "full"

\* C24: a soft reset sets the four counters to 0, clears the four sticky
\* flags and sets LastDiagLevel to Ignored, and leaves as they were the state
\* that lookup returns at every location and its mappings, the current state
\* and the push stack.
C24_SoftResetKeepsPragmaState ==
    [][IsSoftReset =>
         /\ NumWarnings' = 0 /\ NumErrors' = 0
         /\ TrapNumErrorsOccurred' = 0 /\ TrapNumUnrecoverableErrorsOccurred' = 0
         /\ ~ErrorOccurred' /\ ~FatalErrorOccurred'
         /\ ~UnrecoverableErrorOccurred' /\ ~UncompilableErrorOccurred'
         /\ LastDiagLevel' = "Ignored"
         /\ \A i \in 1..Len(TU) :
               /\ lookup(MapState', TU[i]) = lookup(MapState, TU[i])
               /\ MappingsAt(MapState', i) = MappingsAt(MapState, i)
         /\ UNCHANGED <<CurDiagState, CurDiagStateLoc, DiagStateOnPushStack>>]_vars

\* C24 witness: a soft reset after an error was reported and a pragma made a
\* second state, with a state pushed: the error count is 0 again, the
\* pragma's state is still the current one.
C24_Witness ==
    /\ call.op = "Reset" /\ mcall.op = "Reset" /\ mcall.sev = "soft"
    /\ lastNonNote = "Error" /\ NumErrors = 0 /\ ~ErrorOccurred
    /\ CurDiagState # FirstDiagState /\ ~FilesEmpty(MapState)
    /\ DiagStateOnPushStack # <<>>

\* C25: after a full reset the push stack is empty (a pop returns false),
\* the location map has no File, and lookup at every location returns the
\* one state there is, a new one, in which every id has the mapping the
\* catalog gives it by default.
C25_FullResetClearsPragmaState ==
    [][IsFullReset =>
         /\ DiagStateOnPushStack' = <<>>
         /\ \A i \in PragmaLocs : ~popMappings(MapState', TU[i]).ret
         /\ FilesEmpty(MapState')
         /\ DiagStates' = <<EmptyDiagState>>
         /\ \A i \in 1..Len(TU) :
               /\ lookup(MapState', TU[i]) = 1
               /\ \A Diag \in MappedIDs :
                     MappingsAt(MapState', i)[Diag] = getDefaultMapping(Diag)]_vars

\* C25 witness: a full reset after a command-line change and two pragmas.
C25_Witness ==
    /\ call.op = "Reset" /\ mcall.op = "Reset" /\ mcall.sev = "full"
    /\ nCmds = 1 /\ nPragmas = 2
    /\ FilesEmpty(MapState) /\ DiagStateOnPushStack = <<>>
    /\ CurDiagState = 1 /\ FirstDiagState = 1

\* ------------------------------------------------ the suppression mapping

\* The step installs the mapping made of a file that parses.
IsInstall ==
    /\ ~DiagSuppressionMapping
    /\ DiagSuppressionMapping'
    /\ scall'.op = "setDiagSuppressionMapping"

\* The step asks whether a diagnostic is suppressed at a location.
IsSuppressionQuery == scall'.op = "isSuppressedViaMapping"

\* The line of a section's header.
HeaderLine(sec) == sec.SectionMatcher[1].LineNo

SectionsOf(Secs) == {Secs[i] : i \in DOMAIN Secs}

\* The sections whose group contains the diagnostic, and the one of them
\* whose header is on the last line.
OwningSections(Secs, Diag) ==
    {sec \in SectionsOf(Secs) : Diag \in DiagnosticsInGroup(sec.SectionStr)}

LastByLine(secs) ==
    CHOOSE sec \in secs : \A other \in secs : HeaderLine(other) <= HeaderLine(sec)

\* The section the mapping has for the diagnostic, NoSection for none.
NoSection == MakeSection("none", 0, NoEntries)

SectionOf(Secs, Map, Diag) ==
    IF Map[Diag] = 0 THEN NoSection ELSE Secs[Map[Diag]]

OwningSection(Secs, Diag) ==
    IF OwningSections(Secs, Diag) = {} THEN NoSection
    ELSE LastByLine(OwningSections(Secs, Diag))

EmitGenerated ==
    EntriesOf("src", <<[Category |-> "emit", Globs |-> <<Glob_gen_cc>>]>>)
BlockUnderX ==
    EntriesOf("src", <<[Category |-> "block", Globs |-> <<Glob_x_cc>>]>>)

\* The configuration of the example: a section of a group of the diagnostic
\* with src:*.gen.cc=emit, and on a later line a section of another group of
\* the diagnostic with src:x/*.cc=block.
OverriddenFor(Secs, Diag) ==
    \E early, late \in OwningSections(Secs, Diag) :
        /\ HeaderLine(early) < HeaderLine(late)
        /\ early.Entries = EmitGenerated
        /\ late.Entries = BlockUnderX
        /\ late = LastByLine(OwningSections(Secs, Diag))

\* C26: building the suppression map gives every diagnostic id the section
\* with the greatest header line among the sections whose group contains the
\* id (none when no section's group does), whatever the order of the sections
\* in the parsed list; and with a section {src: emit "*.gen.cc"} overridden by
\* a later section of the same ids with {src: block "x/*.cc"}, a diagnostic of
\* these ids is suppressed at x/y.cc and is not at z.gen.cc.
C26_LastSectionByLineOwns ==
    [][/\ IsInstall =>
            \A Diag \in MappedIDs :
                SectionOf(Sections', DiagToSection', Diag)
                    = OwningSection(scall'.input.Sections, Diag)
       /\ (/\ IsSuppressionQuery
           /\ SourceMgr
           /\ DiagSuppressionMapping
           /\ OverriddenFor(Sections, scall'.id))
          => /\ scall'.path = Path_x_y_cc => scall'.ret
             /\ scall'.path = Path_z_gen_cc => ~scall'.ret]_vars

\* A diagnostic of the overridden section was asked about at x/y.cc and is
\* suppressed, the later section standing first in the parsed list.
C26_Witness ==
    /\ scall.op = "isSuppressedViaMapping"
    /\ scall.path = Path_x_y_cc
    /\ scall.ret
    /\ SourceMgr
    /\ DiagSuppressionMapping
    /\ OverriddenFor(Sections, scall.id)
    /\ Len(Sections) > 1
    /\ HeaderLine(Sections[1]) > HeaderLine(Sections[2])

\* The globs of a category family as (category, glob) positions; one is met
\* before another as PairLess orders them.
GlobPositions(Cats) ==
    UNION {{<<c, g>> : g \in DOMAIN Cats[c].Globs} : c \in DOMAIN Cats}

GlobAt(Cats, p) == Cats[p[1]].Globs[p[2]]

MatchingGlobs(Cats, FilePath) ==
    {p \in GlobPositions(Cats) : GlobMatch(GlobAt(Cats, p), FilePath)}

\* The winning glob: no matching glob is longer, and none of its length is
\* met after it.
WinningGlob(Cats, FilePath) ==
    CHOOSE p \in MatchingGlobs(Cats, FilePath) :
        \A q \in MatchingGlobs(Cats, FilePath) \ {p} :
            \/ Len(GlobAt(Cats, q)) < Len(GlobAt(Cats, p))
            \/ /\ Len(GlobAt(Cats, q)) = Len(GlobAt(Cats, p))
               /\ PairLess(q, p)

\* The path the globs are matched against: the file name of the presumed
\* location, less a leading "./".
ResolvedPath(Filename) == remove_leading_dotslash(Filename)

SuppressedBy(sec, Filename) ==
    /\ sec # NoSection
    /\ "src" \in DOMAIN sec.Entries
    /\ Filename # InvalidPath
    /\ MatchingGlobs(sec.Entries["src"], ResolvedPath(Filename)) # {}
    /\ sec.Entries["src"][WinningGlob(sec.Entries["src"],
                                      ResolvedPath(Filename))[1]].Category
           # "emit"

\* C27: isSuppressedViaMapping(id, loc) is true exactly when a source
\* manager and a suppression map are installed, the id has an owning
\* section, the section has "src" entries, the presumed location is valid,
\* some glob of these entries matches the presumed path, and the winning
\* glob (the longest that matches, the one met last among those of that
\* length) is of a category other than "emit"; it is false in every other
\* case.
C27_SuppressedIffWinningGlobIsPositive ==
    [][IsSuppressionQuery =>
          (scall'.ret <=>
              /\ SourceMgr
              /\ DiagSuppressionMapping
              /\ SuppressedBy(SectionOf(Sections, DiagToSection, scall'.id),
                              scall'.path))]_vars

\* A diagnostic was found suppressed where an "emit" glob and a glob of
\* another category, of the same length, both match the path.
C27_Witness ==
    /\ scall.op = "isSuppressedViaMapping"
    /\ scall.ret
    /\ LET sec == SectionOf(Sections, DiagToSection, scall.id)
           Cats == sec.Entries["src"]
           hits == MatchingGlobs(Cats, ResolvedPath(scall.path))
       IN  \E p, q \in hits :
               /\ Len(GlobAt(Cats, p)) = Len(GlobAt(Cats, q))
               /\ Cats[p[1]].Category = "emit"
               /\ Cats[q[1]].Category # "emit"

\* The step builds the mapping from a file that parses.
IsBuild ==
    /\ ~DiagSuppressionMapping
    /\ scall'.op = "setDiagSuppressionMapping"
    /\ scall'.input.parsed

\* The sections of the file named after no group of the catalog, the default
\* section apart.
UnknownSections(Secs) ==
    {sec \in SectionsOf(Secs) : sec.SectionStr \notin KnownGroups \cup {"*"}}

ReportsOf(reports) == {reports[i] : i \in DOMAIN reports}

\* C28: building the map from a file with a section named after no known
\* group reports one unknown-option diagnostic for each such section and
\* none for another (none for a default "*" section, which is dropped), maps
\* no id to such a section, maps every id as the other sections say, and
\* installs the map.
C28_UnknownSectionReportedAndSkipped ==
    [][IsBuild =>
          LET Input == scall'.input.Sections IN
          /\ Len(scall'.reports) = Cardinality(UnknownSections(Input))
          /\ ReportsOf(scall'.reports)
                = {<<"warn_unknown_diag_option", sec.SectionStr>> :
                      sec \in UnknownSections(Input)}
          /\ UnknownSections(Input) # {}
                => /\ call'.op = "ProcessDiag"
                   /\ call'.id = "warn_unknown_diag_option"
                   /\ nCalls' = nCalls + 1
          /\ UnknownSections(Input) = {} => UNCHANGED <<call, nCalls>>
          /\ \A sec \in SectionsOf(Sections') : sec.SectionStr # "*"
          /\ \A Diag \in MappedIDs :
                /\ SectionOf(Sections', DiagToSection', Diag).SectionStr
                       \in KnownGroups \cup {"none"}
                /\ SectionOf(Sections', DiagToSection', Diag)
                       = OwningSection(Input, Diag)
          /\ DiagSuppressionMapping']_vars

\* A map was built from a file with an unknown section before a section of
\* a known group: one diagnostic was reported and the known section owns its
\* ids.
C28_Witness ==
    /\ scall.op = "setDiagSuppressionMapping"
    /\ DiagSuppressionMapping
    /\ Len(scall.reports) = 1
    /\ \E unknown \in UnknownSections(scall.input.Sections) :
       \E Diag \in MappedIDs :
          /\ DiagToSection[Diag] # 0
          /\ HeaderLine(unknown) < HeaderLine(Sections[DiagToSection[Diag]])


\* ------------------------------------------------- the message formatter

\* What a condition of a %plural clause says of a value.
PartHolds(part, Val) ==
    LET tested == IF part.mod # 0 THEN Val % part.mod ELSE Val
    IN  IF part.range THEN part.lo <= tested /\ tested <= part.hi
        ELSE tested = part.lo

ConditionHolds(cond, Val) ==
    cond = <<>> \/ \E i \in DOMAIN cond : PartHolds(cond[i], Val)

ClausesThatHold(conds, Val) ==
    {i \in DOMAIN conds : ConditionHolds(conds[i], Val)}

FirstOf(indices) == CHOOSE i \in indices : \A j \in indices : i <= j

\* C29: %plural renders the form of the first clause, in the order written,
\* whose condition holds of the value: the empty condition holds always, a
\* number when the value equals it, [lo,hi] when the value is in the range,
\* ends included, %d=range when the value modulo d passes the range's test,
\* and a condition with commas when one of its parts holds; and
\* %plural{1:one|:many} of 0, 1, 2 is many, one, many.
C29_PluralRendersFirstMatchingClause ==
    [][fcall'.kind = "plural" =>
          LET conds == fcall'.parts
              Val == fcall'.args[0]
          IN  /\ ClausesThatHold(conds, Val) # {}
                    => /\ ~fcall'.asserted
                       /\ fcall'.out = Forms[FirstOf(ClausesThatHold(conds, Val))]
              /\ fcall'.str = <<"%", "p", "l", "u", "r", "a", "l", "{", "1", ":", "o", "n", "e", "|", ":", "m", "a", "n", "y", "}", "0">>
                    => /\ Val = 1 => fcall'.out = <<"o", "n", "e">>
                       /\ Val \in {0, 2} => fcall'.out = <<"m", "a", "n", "y">>]_vars

\* A %plural was rendered whose first clause, on a range of the value modulo
\* a number, does not hold and whose second, with two parts, holds by its
\* second part.
C29_Witness ==
    /\ fcall.kind = "plural"
    /\ ~fcall.asserted
    /\ Len(fcall.parts) > 1
    /\ fcall.out = Forms[2]
    /\ \E i \in DOMAIN fcall.parts[1] :
          fcall.parts[1][i].mod # 0 /\ fcall.parts[1][i].range
    /\ Len(fcall.parts[2]) > 1
    /\ ~PartHolds(fcall.parts[2][1], fcall.args[0])
    /\ PartHolds(fcall.parts[2][2], fcall.args[0])

\* What an alternative of a %select renders as.
AlternativeRendered(alt, Args) ==
    alt.head
    \o (CASE alt.modifier = "select" -> alt.options[Args[1] + 1]
          [] alt.modifier = "plural"
               -> IF Args[1] = 1 THEN alt.options[1] ELSE alt.options[2]
          [] OTHER -> <<>>)

\* C30: %select of the value k renders alternative k, counting from 0, of
\* the alternatives its argument has between the '|' that are in no nested
\* %modifier{...} (%select{cat|dog} of 1 is dog); with k not less than the
\* number of alternatives an assertion fails and nothing is rendered.
C30_SelectRendersKthAlternative ==
    [][fcall'.kind = "select" =>
          LET alts == fcall'.parts
              k == fcall'.args[0]
          IN  /\ k < Len(alts)
                    => /\ ~fcall'.asserted
                       /\ fcall'.out = AlternativeRendered(alts[k + 1], fcall'.args)
              /\ k >= Len(alts) => fcall'.asserted /\ fcall'.out = <<>>
              /\ (fcall'.str = <<"%", "s", "e", "l", "e", "c", "t", "{", "c", "a", "t", "|", "d", "o", "g", "}", "0">> /\ k = 1)
                    => fcall'.out = <<"d", "o", "g">>]_vars

\* A %select rendered an alternative that stands after one with a nested
\* %select and one with a nested %plural.
C30_Witness ==
    /\ fcall.kind = "select"
    /\ ~fcall.asserted
    /\ fcall.args[0] = 2
    /\ Len(fcall.parts) > 2
    /\ fcall.parts[1].modifier = "select"
    /\ fcall.parts[2].modifier = "plural"
    /\ fcall.out = fcall.parts[3].head
    /\ fcall.out # <<>>

\* --------------------------------------------------------- C32: fatal window

\* The call handed exactly its own diagnostic to the client and returned true.
DeliveredItself(c) ==
    c.handled = <<[level |-> c.level, id |-> c.id]>> /\ c.ret

FlagsImplyErrorOccurred ==
    /\ FatalErrorOccurred => ErrorOccurred
    /\ UnrecoverableErrorOccurred => ErrorOccurred
    /\ UncompilableErrorOccurred => ErrorOccurred

\* No flag that is set becomes unset.
FlagsStaySet ==
    /\ ErrorOccurred => ErrorOccurred'
    /\ FatalErrorOccurred => FatalErrorOccurred'
    /\ UnrecoverableErrorOccurred => UnrecoverableErrorOccurred'
    /\ UncompilableErrorOccurred => UncompilableErrorOccurred'

\* C35: in every reachable state FatalErrorOccurred, UnrecoverableErrorOccurred
\* and UncompilableErrorOccurred each imply ErrorOccurred, and no step other
\* than Reset takes any of the four flags from true to false.
C35_StickyFlags ==
    /\ []FlagsImplyErrorOccurred
    /\ [][call'.op # "Reset" => FlagsStaySet]_vars

\* C35 witness: all four flags are set, and stayed set through a Warning that
\* was silenced.
C35_Witness ==
    /\ call.op = "ProcessDiag" /\ call.level = "Warning" /\ NotDelivered(call)
    /\ FatalErrorOccurred /\ ErrorOccurred
    /\ UnrecoverableErrorOccurred /\ UncompilableErrorOccurred
    /\ ~SuppressAllDiagnostics /\ ~IncludeInDiagnosticCounts

\* ----------------------------------------------------------- C36: counters

\* The error trap counter bounds NumErrors and the unrecoverable trap counter.
TrapCounterBounds ==
    /\ TrapNumErrorsOccurred >= NumErrors
    /\ TrapNumErrorsOccurred >= TrapNumUnrecoverableErrorsOccurred

\* No counter decreases.
CountersGrow ==
    /\ NumErrors' >= NumErrors
    /\ NumWarnings' >= NumWarnings
    /\ TrapNumErrorsOccurred' >= TrapNumErrorsOccurred
    /\ TrapNumUnrecoverableErrorsOccurred' >= TrapNumUnrecoverableErrorsOccurred

\* C36: in every reachable state TrapNumErrorsOccurred is at least NumErrors
\* and at least TrapNumUnrecoverableErrorsOccurred; no step other than Reset
\* decreases NumErrors, NumWarnings or either trap counter; and the call in
\* which fatal_too_many_errors is raised adds two to NumErrors and two to
\* TrapNumErrorsOccurred, one for the error reported and one for the
\* synthetic diagnostic.
C36_Counters ==
    /\ []TrapCounterBounds
    /\ [][/\ (call'.op # "Reset" => CountersGrow)
          /\ (IsProcessDiag /\ HandledTooMany(call')) =>
                /\ NumErrors' = NumErrors + 2
                /\ TrapNumErrorsOccurred' = TrapNumErrorsOccurred + 2]_vars

\* C36 witness: with limit 1 the second Error raised fatal_too_many_errors,
\* and both counters went from 1 to 3.
C36_Witness ==
    /\ call.op = "ProcessDiag" /\ call.level = "Error" /\ HandledTooMany(call)
    /\ Len(call.invoked) = 2
    /\ ErrorLimit = 1 /\ NumErrors = 3 /\ TrapNumErrorsOccurred = 3
    /\ TrapNumUnrecoverableErrorsOccurred < TrapNumErrorsOccurred

\* ------------------------------------------------- C37: notes after a reset

\* C37: as long as ProcessDiag has evaluated no non-note diagnostic since
\* construction or the last Reset, LastDiagLevel is Ignored, and a Note given
\* to ProcessDiag is not handed to the client.
C37_NoteBeforeAnyNonNoteDropped ==
    /\ [](~nonNoteSeen => LastDiagLevel = "Ignored")
    /\ [][(IsProcessDiag /\ call'.level = "Note" /\ ~nonNoteSeen)
            => NotDelivered(call')]_vars

\* C37 witness: a Warning was reported, the engine was reset, and the Note
\* reported next was dropped with no fatal error and no suppress-all to
\* account for it.
C37_Witness ==
    /\ call.op = "ProcessDiag" /\ call.level = "Note" /\ NotDelivered(call)
    /\ lastNonNote = "Warning" /\ ~nonNoteSeen
    /\ ~FatalErrorOccurred /\ ~SuppressAllDiagnostics

\* ----------------------------------------------- C38: ProcessDiag's result

\* The diagnostic the call was made for is among those handed to the client.
HandledItself(c) ==
    \E i \in 1..Len(c.handled) : c.handled[i] = [level |-> c.level, id |-> c.id]

\* C38: ProcessDiag returns true iff the client's HandleDiagnostic was called
\* for the diagnostic ProcessDiag was called for; it returns false when
\* fatal_too_many_errors was handed to the client instead; and when it returns
\* true for a diagnostic of level Warning with a client included in the
\* counts, NumWarnings has grown by exactly one.
C38_ReturnsTrueIffHandled ==
    [][IsProcessDiag =>
         /\ call'.ret = HandledItself(call')
         /\ (HandledTooMany(call') =>
               ~call'.ret /\ call'.handled = <<TooManyErrorsDiag>>)
         /\ (call'.ret /\ call'.level = "Warning" /\ IncludeInDiagnosticCounts
               => NumWarnings' = NumWarnings + 1)]_vars

\* C38 witness: after a Warning that was delivered and counted, an Error over
\* the limit had fatal_too_many_errors delivered in its place, and ProcessDiag
\* returned false for it.
C38_Witness ==
    /\ call.op = "ProcessDiag" /\ call.level = "Error" /\ ~call.ret
    /\ call.handled = <<TooManyErrorsDiag>>
    /\ NumWarnings = 1 /\ IncludeInDiagnosticCounts

\* ------------------------------------------ C33: append and the ancestors

\* The step records a state at a valid location: a setSeverity pragma away
\* from the location of the current state, or a pop that restores another
\* state than the current one (mcall' describes it).  Both call append.
IsAppend ==
    /\ mcall'.op \in {"setSeverity", "popMappings"}
    /\ isValid(mcall'.loc) /\ ~mcall'.asserted
    /\ CurDiagState' # CurDiagState

RECURSIVE InclusionChain(_)

\* The places file ID is included at, innermost first: the location of the
\* include directive in its parent, that of the parent in its own parent, up
\* to the imaginary root file.
InclusionChain(ID) ==
    IF ID = RootFile THEN <<>>
    ELSE <<getDecomposedIncludedLoc(ID)>>
            \o InclusionChain(getDecomposedIncludedLoc(ID).file)

\* C33: when a state is recorded at a valid location, lookup at that location
\* returns it, and in every file its file is included from (directly or not)
\* the last transition is that state at the offset of the include directive
\* of the chain, so that lookup in that file returns the new state at the
\* include directive and after it, and returns what it returned before the
\* call at the offsets before the include directive.
C33_AppendRecordsInAncestors ==
    [][IsAppend =>
         LET Loc == mcall'.loc
             State == CurDiagState'
             Chain == InclusionChain(Loc.file)
         IN  /\ lookup(MapState', Loc) = State
             /\ \A k \in 1..Len(Chain) :
                  LET T == Files'[Chain[k].file].StateTransitions IN
                  /\ T[Len(T)] = [State |-> State, Offset |-> Chain[k].offset]
                  /\ \A i \in 1..Len(TU) :
                       TU[i].file = Chain[k].file =>
                          IF TU[i].offset >= Chain[k].offset
                          THEN lookup(MapState', TU[i]) = State
                          ELSE /\ lookup(MapState', TU[i]) = lookup(MapState, TU[i])
                               /\ MappingsAt(MapState', i) = MappingsAt(MapState, i)]_vars

\* C33 witness: a state recorded in the header after the main file had a
\* transition of its own: the main file has the new state from the include
\* directive on and keeps the state of its own pragma before it.
C33_Witness ==
    /\ mcall.op \in {"setSeverity", "popMappings"} /\ ~mcall.asserted
    /\ mcall.loc.file = "H" /\ CurDiagStateLoc = mcall.loc
    /\ Len(Files["M"].StateTransitions) = 2
    /\ Files["M"].StateTransitions[1].State \notin {FirstDiagState, CurDiagState}
    /\ Files["M"].StateTransitions[2] = [State |-> CurDiagState, Offset |-> 1]
    /\ Files[RootFile].StateTransitions = <<[State |-> CurDiagState, Offset |-> 0]>>
    /\ lookup(MapState, [file |-> "M", offset |-> MaxOffset]) = CurDiagState
    /\ lookup(MapState, [file |-> "M", offset |-> 0]) # CurDiagState

\* ------------------------------------------ C39: enabling the escalations

\* The step enables warning-as-error, or error-as-fatal, for a known group.
IsWarningAsError ==
    /\ mcall'.op = "setDiagnosticGroupWarningAsError" /\ mcall'.sev = "Error"
    /\ mcall'.id \in KnownGroups

IsErrorAsFatal ==
    /\ mcall'.op = "setDiagnosticGroupErrorAsFatal" /\ mcall'.sev = "Fatal"
    /\ mcall'.id \in KnownGroups

\* diag::Severity in increasing order.
SeverityOrder == <<"Ignored", "Remark", "Warning", "Error", "Fatal">>

\* Severity A is at least severity B.
NotLower(A, B) ==
    \E i, j \in 1..Len(SeverityOrder) :
       SeverityOrder[i] = A /\ SeverityOrder[j] = B /\ i >= j

\* Enabling error-as-fatal makes every member Fatal, which lowers none.
ErrorAsFatalEffect ==
    IsErrorAsFatal =>
        \A Diag \in DiagnosticsInGroup(mcall'.id) :
           /\ MemberAfter(Diag).Severity = "Fatal"
           /\ NotLower(MemberAfter(Diag).Severity, MemberBefore(Diag).Severity)

\* C39 as stated: after warning-as-error is enabled for a known group, the
\* severity of every member in the current state is at least what it was,
\* and likewise after error-as-fatal is enabled.
C39_EnablingNeverLowers ==
    [][/\ ErrorAsFatalEffect
       /\ (IsWarningAsError =>
             \A Diag \in DiagnosticsInGroup(mcall'.id) :
                NotLower(MemberAfter(Diag).Severity,
                         MemberBefore(Diag).Severity))]_vars

\* C39, amended: after warning-as-error is enabled for a known group, every
\* member is mapped to Error in the current state, which is at least what it
\* was unless it was Fatal: a member mapped to Fatal is lowered to Error.
\* Enabling error-as-fatal is as stated.
C39_EnablingWarningAsErrorSetsError ==
    [][/\ ErrorAsFatalEffect
       /\ (IsWarningAsError =>
             \A Diag \in DiagnosticsInGroup(mcall'.id) :
                /\ MemberAfter(Diag).Severity = "Error"
                /\ NotLower(MemberAfter(Diag).Severity,
                            MemberBefore(Diag).Severity)
                     = (MemberBefore(Diag).Severity # "Fatal"))]_vars

\* C39 witness: warning-as-error was enabled for a group, as the second
\* option of the command line, after an option that made an error outside
\* the group fatal: every member is an error now.
C39_Witness ==
    /\ mcall.op = "setDiagnosticGroupWarningAsError" /\ mcall.sev = "Error"
    /\ mcall.id \in KnownGroups /\ ~mcall.ret /\ nCmds = 2
    /\ GroupSeverity[mcall.id] = "Error"
    /\ \A Diag \in DiagnosticsInGroup(mcall.id) :
          /\ DiagStates[CurDiagState][Diag].Severity = "Error"
          /\ DiagStates[CurDiagState][Diag].IsUser
    /\ DiagStates[CurDiagState]["err_x"].Severity = "Fatal"

\* ------------------------------------- C34: a malformed suppression mapping

\* The step is a setDiagSuppressionMapping whose buffer the parser rejects.
IsMalformedInstall ==
    scall'.op = "setDiagSuppressionMapping" /\ ~scall'.input.parsed

\* C34: setDiagSuppressionMapping on a buffer the parser rejects reports one
\* diagnostic, err_drv_malformed_warning_suppression_mapping, an Error that
\* goes through ProcessDiag as any reported diagnostic; it installs nothing:
\* whether a mapping is installed, the mapping installed, and the answer of
\* isSuppressedViaMapping for every diagnostic and file are what they were.
C34_MalformedMappingKeepsWhatWasInstalled ==
    [][IsMalformedInstall =>
         /\ Len(scall'.reports) = 1
         /\ scall'.reports[1][1] = "err_drv_malformed_warning_suppression_mapping"
         /\ call'.op = "ProcessDiag" /\ call'.level = "Error"
         /\ call'.id = "err_drv_malformed_warning_suppression_mapping"
         /\ call'.invoked = <<[level |-> call'.level, id |-> call'.id]>>
         /\ DeliveredItself(call')
         /\ nCalls' = nCalls + 1 /\ NumErrors' = NumErrors + 1
         /\ UNCHANGED <<Sections, DiagToSection, DiagSuppressionMapping>>
         /\ \A DiagId \in MappedIDs : \A Filename \in Paths \cup {InvalidPath} :
               /\ isSuppressedViaMapping(Suppress', DiagId, Filename)
                    = isSuppressedViaMapping(Suppress, DiagId, Filename)
               /\ isSuppressedViaMapping([Suppress' EXCEPT !.SourceMgr = TRUE],
                                         DiagId, Filename)
                    = isSuppressedViaMapping([Suppress EXCEPT !.SourceMgr = TRUE],
                                             DiagId, Filename)]_vars

\* C34 witness: a file was rejected after another had been installed, and the
\* mapping installed still suppresses a diagnostic in a file.
C34_Witness ==
    /\ scall.op = "setDiagSuppressionMapping" /\ ~scall.input.parsed
    /\ call.id = "err_drv_malformed_warning_suppression_mapping"
    /\ NumErrors = 1 /\ DiagSuppressionMapping
    /\ \E DiagId \in MappedIDs : \E Filename \in Paths :
          isSuppressedViaMapping([Suppress EXCEPT !.SourceMgr = TRUE],
                                 DiagId, Filename)

\* ------------------------------------------------------ C31: the escaper

\* The step escapes a string.
IsEscape == fcall'.op = "EscapeStringForDiagnostic"

\* The bytes of Str before byte i, and from byte i on.
Before(Str, i) == SubSeq(Str, 1, i - 1)

From(Str, i) == SubSeq(Str, i, Len(Str))

\* What is appended for a string with a bell at byte i, if Marker is what is
\* appended for the bell: the bytes before it and those after it escaped on
\* their own, around the marker.
AroundBell(Str, i, Marker) ==
    EscapeStringForDiagnostic(Before(Str, i), <<>>) \o Marker
        \o EscapeStringForDiagnostic(From(Str, i + 1), <<>>)

\* A well-formed sequence starts at byte i of Str and encodes a printable
\* code point.
PrintableAt(Str, i) ==
    /\ isLegalUTF8Sequence(Str, i)
    /\ unicode_isPrintable(ConvertUTF8toUTF32(Str, i))

\* A printable code point is appended as the bytes that encode it, between
\* what is appended for the bytes before it and for those after it.
PrintablePassedThrough ==
    IsEscape =>
       \A i \in 1 .. Len(fcall'.str) :
          PrintableAt(fcall'.str, i) =>
             LET Str == fcall'.str
                 End == i + getNumBytesForUTF8(Str[i])
             IN  fcall'.out =
                    EscapeStringForDiagnostic(Before(Str, i), <<>>)
                       \o SubSeq(Str, i, End - 1)
                       \o EscapeStringForDiagnostic(From(Str, End), <<>>)

\* C31 as stated: for each bell (byte 7) of the string escaped, "<07>" is
\* appended, and a printable code point is appended unchanged.
C31_BellMarkedAsCodeUnit ==
    [][/\ PrintablePassedThrough
       /\ (IsEscape =>
             \A i \in 1 .. Len(fcall'.str) :
                fcall'.str[i] = 7 =>
                   fcall'.out = AroundBell(fcall'.str, i, <<60, 48, 55, 62>>))]_vars

\* C31, amended: for each bell (byte 7) of the string escaped, "<U+0007>" is
\* appended, the marker of a code point that is not printable; "<XX>" is
\* appended for a byte that starts no well-formed UTF-8 sequence, such as
\* 0xFF; and a printable code point is appended unchanged.
C31_BellMarkedAsCodepoint ==
    [][/\ PrintablePassedThrough
       /\ (IsEscape =>
             \A i \in 1 .. Len(fcall'.str) :
                /\ fcall'.str[i] = 7 =>
                      fcall'.out =
                         AroundBell(fcall'.str, i,
                                    <<60, 85, 43, 48, 48, 48, 55, 62>>)
                /\ fcall'.str[i] = 255 =>
                      fcall'.out =
                         AroundBell(fcall'.str, i, <<60, 70, 70, 62>>))]_vars

\* C31 witness: a bell followed by U+00E9 was escaped to "<U+0007>" followed
\* by the two bytes of U+00E9.
C31_Witness ==
    /\ fcall.op = "EscapeStringForDiagnostic"
    /\ fcall.str = <<7, 195, 169>>
    /\ fcall.out = <<60, 85, 43, 48, 48, 48, 55, 62, 195, 169>>

====
